---- MODULE Spec2Model ----
(***************************************************************************)
(* A model of the Clappia MCP adapter (clappia-mcp.py and tools/*.py):     *)
(* the validators, the payload builders, the API clients and the tool      *)
(* facade.  A Python str is a sequence of one-character strings, so that   *)
(* str.strip() and re.match() are computed and not assumed.  None is the   *)
(* empty tuple and a supplied optional value v is the one-element tuple    *)
(* <<v>>.  A message (an f-string) is a sequence of text segments.         *)
(***************************************************************************)
EXTENDS Integers, Sequences, FiniteSets, TLC

VARIABLES
    phase,      \* "idle" between invocations, "done" when one has completed
    env,        \* the process environment (os.environ), never written
    call,       \* the invocation: [tool, layer, args]
    outcome,    \* what the invocation gave its caller: [kind, value]
    requests,   \* the HTTP requests the invocation issued, in order
    delegated   \* the calls the facade made into tools/ or the client library

vars == <<phase, env, call, outcome, requests, delegated>>

(***************************************************************************)
(* Python values                                                           *)
(***************************************************************************)
None == <<>>
Some(v) == <<v>>
IsNone(o) == o = <<>>
Val(o) == o[1]

\* str.strip() removes these from both ends
Whitespace == {" ", "\t", "\n", "\r"}

Upper == {"A","B","C","D","E","F","G","H","I","J","K","L","M",
          "N","O","P","Q","R","S","T","U","V","W","X","Y","Z"}
Lower == {"a","b","c","d","e","f","g","h","i","j","k","l","m",
          "n","o","p","q","r","s","t","u","v","w","x","y","z"}
Digit == {"0","1","2","3","4","5","6","7","8","9"}

RECURSIVE LStrip(_)
LStrip(s) == IF s # <<>> /\ Head(s) \in Whitespace THEN LStrip(Tail(s)) ELSE s

RECURSIVE RStrip(_)
RStrip(s) ==
    IF s # <<>> /\ s[Len(s)] \in Whitespace
    THEN RStrip(SubSeq(s, 1, Len(s) - 1))
    ELSE s

\* str.lstrip()
Strip_leading_only(s) == LStrip(s)

\* str.strip()
Strip(s) == RStrip(LStrip(s))

AllIn(s, class) == \A i \in 1..Len(s) : s[i] \in class

\* The text of a str, for interpolation into a message
RECURSIVE Text(_)
Text(s) == IF s = <<>> THEN "" ELSE Head(s) \o Text(Tail(s))

\* In a Python pattern, $ matches at the end of the string and also just
\* before a newline that ends the string: the candidates for "the part the
\* pattern must cover".
DollarCuts(s) ==
    {s} \cup (IF s # <<>> /\ s[Len(s)] = "\n"
              THEN {SubSeq(s, 1, Len(s) - 1)} ELSE {})

\* re.match(r'^[A-Z0-9]+$', s)
MatchIdPattern(s) ==
    \E t \in DollarCuts(s) : t # <<>> /\ AllIn(t, Upper \cup Digit)

EmailLocalChars == Upper \cup Lower \cup Digit \cup {".", "_", "%", "+", "-"}
EmailDomainChars == Upper \cup Lower \cup Digit \cup {".", "-"}

\* re.match(r'^[a-zA-Z0-9._%+-]+@[a-zA-Z0-9.-]+\.[a-zA-Z]{2,}$', s)
MatchEmailPattern(s) ==
    \E t \in DollarCuts(s) :
        \E i \in 1..Len(t) : \E j \in 1..Len(t) :
            /\ 1 < i /\ i + 1 < j /\ j + 2 <= Len(t)
            /\ t[i] = "@" /\ t[j] = "."
            /\ AllIn(SubSeq(t, 1, i - 1), EmailLocalChars)
            /\ AllIn(SubSeq(t, i + 1, j - 1), EmailDomainChars)
            /\ AllIn(SubSeq(t, j + 1, Len(t)), Upper \cup Lower)

\* `not s or not s.strip()` for a str or None
Blank(o) == IsNone(o) \/ Val(o) = <<>> \/ Strip(Val(o)) = <<>>

\* A validator's (ok, message) pair
Ok == [ok |-> TRUE, msg |-> <<>>]
Fail(m) == [ok |-> FALSE, msg |-> m]

(***************************************************************************)
(* Validators                                                              *)
(***************************************************************************)
\* The outer gate of the tool facade
validate_required_params(email) ==
    IF Blank(email)
    THEN Fail(<<"Email address is required. Please provide a valid email address.">>)
    ELSE IF ~MatchEmailPattern(Strip(Val(email)))
    THEN Fail(<<"Invalid email format. Please provide a valid email address.">>)
    ELSE Ok

validate_app_id_unstripped(app_id) ==
    IF Blank(app_id)
    THEN Fail(<<"App ID is required and cannot be empty">>)
    ELSE IF ~MatchIdPattern(Val(app_id))
    THEN Fail(<<"App ID must contain only uppercase letters and numbers">>)
    ELSE Ok

\* The same text in add_field, update_field, get_definition,
\* create_submission, edit_submission, update_submission_status and
\* update_submission_owners
validate_app_id(app_id) ==
    IF Blank(app_id)
    THEN Fail(<<"App ID is required and cannot be empty">>)
    ELSE IF ~MatchIdPattern(Strip(Val(app_id)))
    THEN Fail(<<"App ID must contain only uppercase letters and numbers">>)
    ELSE Ok

validate_workplace_id(workplace_id) ==
    IF Blank(workplace_id)
    THEN Fail(<<"Workplace ID is required and cannot be empty">>)
    ELSE IF ~MatchIdPattern(Strip(Val(workplace_id)))
    THEN Fail(<<"Workplace ID must contain only uppercase letters and numbers">>)
    ELSE Ok

\* The per-operation email validator (add_field, update_field, create_app,
\* create_submission, edit_submission, update_submission_status,
\* update_submission_owners share this text)
validate_email(email) ==
    IF Blank(email)
    THEN Fail(<<"Email is required and cannot be empty">>)
    ELSE IF ~MatchEmailPattern(Strip(Val(email)))
    THEN Fail(<<"Invalid email format">>)
    ELSE Ok

\* ClappiaValidator.validate_email of get_submissions: a bool, and the
\* pattern is matched against the address as given
ClappiaValidator_validate_email(email) == MatchEmailPattern(email)

(***************************************************************************)
(* Keyword arguments, request records and payloads                         *)
(*                                                                         *)
(* The arguments of an invocation are a function from the names of the     *)
(* parameters the caller supplied to their values (a value of None counts  *)
(* as not supplied: every optional parameter of the facade defaults to     *)
(* None or to a literal).  A payload is a function from the upstream keys  *)
(* to values.                                                              *)
(***************************************************************************)
EmptyDict == [k \in {} |-> TRUE]
Has(d, k) == k \in DOMAIN d
Get(d, k, default) == IF k \in DOMAIN d THEN d[k] ELSE default
\* dict.get(k): None when absent
GetOpt(d, k) == IF k \in DOMAIN d THEN Some(d[k]) ELSE None
Restrict(d, keys) == [k \in (DOMAIN d) \cap keys |-> d[k]]
\* payload[k] = v when c holds
When(c, k, v) == IF c THEN k :> v ELSE EmptyDict

Truthy_not_none(o) == ~IsNone(o)

\* Truthiness of an Optional str / list (`if request.description:`)
Truthy(o) == ~IsNone(o) /\ Val(o) # <<>>
\* Truthiness of an Optional int (`if request.number_of_cols:`)
TruthyInt(o) == ~IsNone(o) /\ Val(o) # 0

\* A message segment for a set joined with ', ' (the order of a Python set
\* is not fixed)
Joined(name) == "{" \o name \o "}"

(***************************************************************************)
(* tools/add_field.py                                                      *)
(***************************************************************************)
ADD_VALID_FIELD_TYPES ==
    {"singleLineText", "multiLineText", "singleSelector", "multiSelector",
     "dropDown", "dateSelector", "timeSelector", "phoneNumber",
     "uniqueNumbering", "file", "gpsLocation", "html", "calculationsAndLogic",
     "codeScanner", "counter", "slider", "signature", "validation",
     "liveTracking", "nfcReader", "address"}

validate_field_type(field_type) ==
    IF field_type \notin ADD_VALID_FIELD_TYPES
    THEN Fail(<<"Invalid fieldType '", field_type, "'. Valid types: ",
                Joined("VALID_FIELD_TYPES")>>)
    ELSE Ok

validate_label(label) ==
    IF Blank(Some(label))
    THEN Fail(<<"Field label is required and cannot be empty">>)
    ELSE Ok

validate_indices(section_index, field_index) ==
    IF section_index < 0 THEN Fail(<<"Section index must be >= 0">>)
    ELSE IF field_index < 0 THEN Fail(<<"Field index must be >= 0">>)
    ELSE Ok

validate_field_specific_options_two_selectors(field_type, options, formula) ==
    IF /\ field_type \in {"singleSelector", "multiSelector"}
       /\ ~Truthy(options)
    THEN Fail(<<"Field type '", field_type, "' requires non-empty ",
                "options", " list">>)
    ELSE IF field_type = "calculationsAndLogic" /\ Blank(formula)
    THEN Fail(<<"Field type 'calculationsAndLogic' requires a formula">>)
    ELSE Ok

validate_field_specific_options_unstripped_formula(field_type, options, formula) ==
    IF /\ field_type \in {"singleSelector", "multiSelector", "dropDown"}
       /\ ~Truthy(options)
    THEN Fail(<<"Field type '", field_type, "' requires non-empty ",
                "options", " list">>)
    ELSE IF field_type = "calculationsAndLogic" /\ ~Truthy(formula)
    THEN Fail(<<"Field type 'calculationsAndLogic' requires a formula">>)
    ELSE Ok

\* options and formula are kwargs.get('options') and kwargs.get('formula')
validate_field_specific_options(field_type, options, formula) ==
    IF /\ field_type \in {"singleSelector", "multiSelector", "dropDown"}
       /\ ~Truthy(options)
    THEN Fail(<<"Field type '", field_type, "' requires non-empty ",
                "options", " list">>)
    ELSE IF field_type = "calculationsAndLogic" /\ Blank(formula)
    THEN Fail(<<"Field type 'calculationsAndLogic' requires a formula">>)
    ELSE Ok

AddRequired ==
    {"app_id", "workplace_id", "requesting_user_email_address",
     "section_index", "field_index", "field_type", "label"}

AddOptional ==
    {"description", "required", "block_width_percentage_desktop",
     "block_width_percentage_mobile", "display_condition", "retain_values",
     "is_editable", "editability_condition", "validation", "default_value",
     "options", "style", "number_of_cols", "allowed_file_types",
     "max_file_allowed", "image_quality", "image_text", "file_name_prefix",
     "formula", "hidden"}

\* The dataclass: a default value for six attributes, None for the others
AddFieldRequest(args) ==
    [app_id |-> args.app_id,
     workplace_id |-> args.workplace_id,
     requesting_user_email_address |-> args.requesting_user_email_address,
     section_index |-> args.section_index,
     field_index |-> args.field_index,
     field_type |-> args.field_type,
     label |-> args.label,
     description |-> GetOpt(args, "description"),
     required |-> Get(args, "required", FALSE),
     block_width_percentage_desktop |->
         Get(args, "block_width_percentage_desktop", 100),
     block_width_percentage_mobile |->
         Get(args, "block_width_percentage_mobile", 100),
     display_condition |-> GetOpt(args, "display_condition"),
     retain_values |-> Get(args, "retain_values", FALSE),
     is_editable |-> Get(args, "is_editable", TRUE),
     editability_condition |-> GetOpt(args, "editability_condition"),
     validation |-> Get(args, "validation", "none"),
     default_value |-> GetOpt(args, "default_value"),
     options |-> GetOpt(args, "options"),
     style |-> Get(args, "style", "Standard"),
     number_of_cols |-> GetOpt(args, "number_of_cols"),
     allowed_file_types |-> GetOpt(args, "allowed_file_types"),
     max_file_allowed |-> Get(args, "max_file_allowed", 1),
     image_quality |-> Get(args, "image_quality", "medium"),
     image_text |-> GetOpt(args, "image_text"),
     file_name_prefix |-> GetOpt(args, "file_name_prefix"),
     formula |-> GetOpt(args, "formula"),
     hidden |-> GetOpt(args, "hidden")]

\* ClappiaAddFieldClient._build_payload
\* _build_payload without the test of the selector types
AddBuildPayload_style_for_every_type(request) ==
    [appId |-> Strip(request.app_id),
     workplaceId |-> Strip(request.workplace_id),
     requestingUserEmailAddress |-> Strip(request.requesting_user_email_address),
     sectionIndex |-> request.section_index,
     fieldIndex |-> request.field_index,
     fieldType |-> request.field_type,
     label |-> Strip(request.label),
     required |-> request.required,
     blockWidthPercentageDesktop |-> request.block_width_percentage_desktop,
     blockWidthPercentageMobile |-> request.block_width_percentage_mobile,
     retainValues |-> request.retain_values,
     isEditable |-> request.is_editable,
     validation |-> request.validation]
    @@ When(~IsNone(request.hidden), "hidden", Val(request.hidden))
    @@ When(Truthy(request.description), "description",
            Strip(Val(request.description)))
    @@ When(Truthy(request.display_condition), "displayCondition",
            Strip(Val(request.display_condition)))
    @@ When(Truthy(request.editability_condition), "editabilityCondition",
            Strip(Val(request.editability_condition)))
    @@ When(Truthy(request.default_value), "defaultValue",
            Strip(Val(request.default_value)))
    @@ When(Truthy(request.options), "options", Val(request.options))
    @@ (IF TRUE
        THEN ("style" :> request.style)
             @@ When(TruthyInt(request.number_of_cols), "numberOfCols",
                     Val(request.number_of_cols))
        ELSE EmptyDict)
    @@ (IF request.field_type = "file"
        THEN When(Truthy(request.allowed_file_types), "allowedFileTypes",
                  Val(request.allowed_file_types))
             @@ ("maxFileAllowed" :> request.max_file_allowed)
             @@ ("imageQuality" :> request.image_quality)
             @@ When(Truthy(request.image_text), "imageText",
                     Strip(Val(request.image_text)))
             @@ When(Truthy(request.file_name_prefix), "fileNamePrefix",
                     Strip(Val(request.file_name_prefix)))
        ELSE EmptyDict)
    @@ When(request.field_type = "calculationsAndLogic"
                /\ Truthy(request.formula),
            "formula", Strip(Val(request.formula)))

AddBuildPayload(request) ==
    [appId |-> Strip(request.app_id),
     workplaceId |-> Strip(request.workplace_id),
     requestingUserEmailAddress |-> Strip(request.requesting_user_email_address),
     sectionIndex |-> request.section_index,
     fieldIndex |-> request.field_index,
     fieldType |-> request.field_type,
     label |-> Strip(request.label),
     required |-> request.required,
     blockWidthPercentageDesktop |-> request.block_width_percentage_desktop,
     blockWidthPercentageMobile |-> request.block_width_percentage_mobile,
     retainValues |-> request.retain_values,
     isEditable |-> request.is_editable,
     validation |-> request.validation]
    @@ When(~IsNone(request.hidden), "hidden", Val(request.hidden))
    @@ When(Truthy(request.description), "description",
            Strip(Val(request.description)))
    @@ When(Truthy(request.display_condition), "displayCondition",
            Strip(Val(request.display_condition)))
    @@ When(Truthy(request.editability_condition), "editabilityCondition",
            Strip(Val(request.editability_condition)))
    @@ When(Truthy(request.default_value), "defaultValue",
            Strip(Val(request.default_value)))
    @@ When(Truthy(request.options), "options", Val(request.options))
    @@ (IF request.field_type \in {"singleSelector", "multiSelector"}
        THEN ("style" :> request.style)
             @@ When(TruthyInt(request.number_of_cols), "numberOfCols",
                     Val(request.number_of_cols))
        ELSE EmptyDict)
    @@ (IF request.field_type = "file"
        THEN When(Truthy(request.allowed_file_types), "allowedFileTypes",
                  Val(request.allowed_file_types))
             @@ ("maxFileAllowed" :> request.max_file_allowed)
             @@ ("imageQuality" :> request.image_quality)
             @@ When(Truthy(request.image_text), "imageText",
                     Strip(Val(request.image_text)))
             @@ When(Truthy(request.file_name_prefix), "fileNamePrefix",
                     Strip(Val(request.file_name_prefix)))
        ELSE EmptyDict)
    @@ When(request.field_type = "calculationsAndLogic"
                /\ Truthy(request.formula),
            "formula", Strip(Val(request.formula)))

(***************************************************************************)
(* Invocations                                                             *)
(***************************************************************************)
NoCall == [tool |-> "none", layer |-> "none", args |-> <<>>]
NoOutcome == [kind |-> "none", value |-> <<>>]

Returned(v) == [kind |-> "returned", value |-> v]
Raised(exc) == [kind |-> "raised", value |-> <<exc>>]

\* What running an operation comes to: what it gave its caller, the requests
\* it issued and the calls it delegated
Result(out, reqs, dels) ==
    [outcome |-> out, requests |-> reqs, delegated |-> dels]

\* A function that computes its value and touches nothing
Pure(v) == Result(Returned(v), <<>>, <<>>)

\* One invocation runs to completion
Complete(tool, layer, args, res) ==
    /\ phase' = "done"
    /\ call' = [tool |-> tool, layer |-> layer, args |-> args]
    /\ outcome' = res.outcome
    /\ requests' = res.requests
    /\ delegated' = res.delegated
    /\ UNCHANGED env

\* The caller has its answer; the next invocation starts from nothing: no
\* state but the environment is kept from one invocation to the next
Return ==
    /\ phase = "done"
    /\ phase' = "idle"
    /\ call' = NoCall
    /\ outcome' = NoOutcome
    /\ requests' = <<>>
    /\ delegated' = <<>>
    /\ UNCHANGED env

(***************************************************************************)
(* The validators applied to strings                                       *)
(***************************************************************************)
MaxIdLen == 3
MaxEmailLen == 6

Strings(alphabet, n) == UNION {[1..k -> alphabet] : k \in 0..n}

IdStrings == Strings({"A", "0", "a", " ", "\n", "-"}, MaxIdLen)

EmailStrings ==
    {lead \o body \o trail :
        lead \in {<<>>, <<" ">>},
        body \in Strings({"a", "@", "."}, MaxEmailLen),
        trail \in {<<>>, <<" ">>, <<"\n">>}}

Check_validate_app_id ==
    /\ phase = "idle"
    /\ \E s \in IdStrings :
          Complete("validate_app_id", "validator", [s |-> s],
                   Pure(validate_app_id(Some(s))))

Check_validate_workplace_id ==
    /\ phase = "idle"
    /\ \E s \in IdStrings :
          Complete("validate_workplace_id", "validator", [s |-> s],
                   Pure(validate_workplace_id(Some(s))))

Check_validate_required_params ==
    /\ phase = "idle"
    /\ \E s \in EmailStrings :
          Complete("validate_required_params", "validator", [s |-> s],
                   Pure(validate_required_params(Some(s))))

Check_validate_email ==
    /\ phase = "idle"
    /\ \E s \in EmailStrings :
          Complete("validate_email", "validator", [s |-> s],
                   Pure(validate_email(Some(s))))

Check_ClappiaValidator_validate_email ==
    /\ phase = "idle"
    /\ \E s \in EmailStrings :
          Complete("ClappiaValidator.validate_email", "validator", [s |-> s],
                   Pure(ClappiaValidator_validate_email(s)))

ConfiguredEnv ==
    [DEV_API_KEY |-> Some("key"),
     CLAPPIA_EXTERNAL_API_BASE_URL |-> Some("https://api"),
     CLAPPIA_API_KEY |-> Some("key"),
     CLAPPIA_WORKPLACE_ID |-> Some("W1")]

(***************************************************************************)
(* The environment and the upstream service                                *)
(***************************************************************************)
\* `not self.api_key`: the variable is unset or empty
Unset(e, name) == IsNone(e[name]) \/ Val(e[name]) = ""

\* The environments: everything configured, or one variable missing
Environments ==
    {ConfiguredEnv} \cup
    {[ConfiguredEnv EXCEPT ![name] = None] : name \in DOMAIN ConfiguredEnv}

\* _validate_environment of add_field, update_field, get_definition and
\* get_submissions_aggregation
validate_environment_dev(e) ==
    IF Unset(e, "DEV_API_KEY")
    THEN Fail(<<"DEV_API_KEY environment variable is not set">>)
    ELSE IF Unset(e, "CLAPPIA_EXTERNAL_API_BASE_URL")
    THEN Fail(<<"CLAPPIA_EXTERNAL_API_BASE_URL environment variable is not set">>)
    ELSE Ok

\* _validate_environment of get_submissions and create_app
validate_environment_workplace(e) ==
    IF Unset(e, "CLAPPIA_API_KEY")
    THEN Fail(<<"CLAPPIA_API_KEY environment variable is not set">>)
    ELSE IF Unset(e, "CLAPPIA_WORKPLACE_ID")
    THEN Fail(<<"CLAPPIA_WORKPLACE_ID environment variable is not set">>)
    ELSE Ok

\* What requests.post / requests.get comes to: a response, or an exception
\* of the transport.  A response body is a JSON object, a JSON value that is
\* not an object, or text that is not JSON (json is then None).  The members
\* of an object that are null are named in nulls.
JsonValue(type, members, nulls, repr) ==
    Some([type |-> type, members |-> members, nulls |-> nulls, repr |-> repr])
JsonDict(members, repr) == JsonValue("dict", members, {}, repr)
JsonList(repr) == JsonValue("list", EmptyDict, {}, repr)
\* response_data.get(key, default), interpolated into an f-string
Member(json, key, default) ==
    IF key \in Val(json).nulls THEN "None"
    ELSE Get(Val(json).members, key, default)
Response(status_code, json, text) ==
    [kind |-> "response", status_code |-> status_code, json |-> json,
     text |-> text, exc |-> "none"]
Exception(exc) ==
    [kind |-> "exception", status_code |-> 0, json |-> None, text |-> "",
     exc |-> exc]

Replies ==
    {Response(200, JsonDict(("fieldName" :> "f1") @@ ("appId" :> "NEW1")
                                @@ ("appUrl" :> "https://app/NEW1"),
                            "{...}"), "{...}"),
     Response(200, JsonDict(EmptyDict, "{}"), "{}"),
     Response(200, JsonList("[]"), "[]"),
     Response(200, None, "<html>"),
     Response(201, JsonDict(EmptyDict, "{}"), "{}"),
     Response(400, JsonDict("message" :> "bad", "{message: bad}"), "{message: bad}"),
     Response(404, None, "not found"),
     Response(500, None, "oops"),
     Exception("Timeout"), Exception("ConnectionError"),
     Exception("RequestException"), Exception("Exception")}

\* json.dumps(response_data, indent=2)
Dumps(json) == "json.dumps(" \o Val(json).repr \o ")"

\* The except clauses, the same in every client
TransportError(exc) ==
    CASE exc = "Timeout" ->
           <<"Error: Request timeout - API took too long to respond">>
      [] exc = "ConnectionError" ->
           <<"Error: Connection error - Could not reach the Clappia API">>
      [] exc = "RequestException" ->
           <<"Error: Request failed - ", "str(e)">>
      [] OTHER ->
           <<"Error: An internal error occurred - ", "str(e)">>

\* The branches for 400, 401, 403, 404 and for any other status, the same in
\* every client
HandleErrorStatus(response) ==
    IF response.status_code \in {400, 401, 403, 404}
    THEN IF ~IsNone(response.json)
         THEN <<"API Error (", ToString(response.status_code), "): ",
                Dumps(response.json)>>
         ELSE <<"API Error (", ToString(response.status_code), "): ",
                response.text>>
    ELSE <<"Unexpected API response (", ToString(response.status_code), "): ",
           response.text>>

HttpRequest(method, url, headers, body) ==
    [method |-> method, url |-> url, headers |-> headers, body |-> body]

\* CLAPPIA_EXTERNAL_API_BASE_URL of tools/constants.py, which get_submissions,
\* create_app, edit_submission and update_submission_status import.  The
\* module is not among the sources; the constant is taken to hold the
\* environment variable of its name, which the docstrings of create_app and
\* edit_app_submission name as required.
constants_BASE_URL(e) == e.CLAPPIA_EXTERNAL_API_BASE_URL

\* f"{v}" of a value that may be None
Interpolated(v) == IF IsNone(v) THEN "None" ELSE Val(v)

\* requests.post and requests.get: a URL without a scheme raises
\* MissingSchema, a RequestException, and nothing goes out; any other request
\* gets the reply of the service
Transport(request, reply) ==
    IF request.url[1] = "None" THEN Exception("RequestException") ELSE reply

\* Send with the request repeated once after a timeout
Send_retry_after_timeout(request, reply, handled) ==
    LET got == Transport(request, reply)
        one == [sent |-> request, reply |-> got]
    IN  Result(Returned(IF got.kind = "exception" THEN TransportError(got.exc)
                        ELSE IF handled.kind = "raised" THEN TransportError("Exception")
                        ELSE handled.value),
               IF got.kind = "exception" /\ got.exc = "Timeout"
               THEN <<one, one>> ELSE <<one>>, <<>>)

\* The try block of a client: the request is issued, and the reply is
\* either classified by the client's _handle_response (handled is what it
\* returned or raised) or caught by an except clause.  The request is recorded with the
\* reply it got.
Send(request, reply, handled) ==
    LET got == Transport(request, reply)
    IN  Result(Returned(IF got.kind = "exception"
                        THEN TransportError(got.exc)
                        ELSE IF handled.kind = "raised"
                        THEN TransportError("Exception")
                        ELSE handled.value),
               <<[sent |-> request, reply |-> got]>>, <<>>)

\* A return before the try block
Reject(msg) == Result(Returned(msg), <<>>, <<>>)

\* The service replies only to a request that was issued: what an
\* invocation that issues none returns does not depend on the reply, so one
\* reply stands for all of them
AnyReply == Exception("Timeout")
Answers(res) == IF res.requests = <<>> THEN {AnyReply} ELSE Replies

(***************************************************************************)
(* tools/add_field.py: the client                                          *)
(***************************************************************************)
AddHandleResponse(response) ==
    IF response.status_code = 200
    THEN IF IsNone(response.json)
         THEN <<"Field added ", "successfully", ": ", response.text>>
         ELSE IF Val(response.json).type = "dict"
         THEN <<"Field added ", "successfully", ":\nField Name: ",
                Member(response.json, "fieldName", "Unknown"),
                "\nFull Response: ", Dumps(response.json)>>
         ELSE <<"Field added ", "successfully", ": ", Dumps(response.json)>>
    ELSE HandleErrorStatus(response)

FieldHeaders(e, workplace_id) ==
    [x_api_key |-> Val(e.DEV_API_KEY),
     workplaceId |-> workplace_id,
     Content_Type |-> "application/json"]

\* ClappiaAddFieldClient.add_field; a holds the seven positional arguments
\* and the keyword arguments
\* add_field with the label validated before the field type
add_field_label_before_field_type(e, a, reply) ==
    LET kwargs == Restrict(a, AddOptional)
        app == validate_app_id(Some(a.app_id))
        workplace == validate_workplace_id(Some(a.workplace_id))
        email == validate_email(Some(a.requesting_user_email_address))
        type == validate_field_type(a.field_type)
        label == validate_label(a.label)
        indices == validate_indices(a.section_index, a.field_index)
        specific == validate_field_specific_options(
                        a.field_type, GetOpt(kwargs, "options"),
                        GetOpt(kwargs, "formula"))
        environment == validate_environment_dev(e)
    IN  IF ~app.ok THEN Reject(<<"Error: Invalid app_id - ">> \o app.msg)
        ELSE IF ~workplace.ok
        THEN Reject(<<"Error: Invalid workplace_id - ">> \o workplace.msg)
        ELSE IF ~email.ok
        THEN Reject(<<"Error: Invalid email - ">> \o email.msg)
        ELSE IF ~label.ok
        THEN Reject(<<"Error: Invalid label - ">> \o label.msg)
        ELSE IF ~type.ok
        THEN Reject(<<"Error: Invalid field_type - ">> \o type.msg)
        ELSE IF ~indices.ok
        THEN Reject(<<"Error: Invalid indices - ">> \o indices.msg)
        ELSE IF ~specific.ok
        THEN Reject(<<"Error: Field validation failed - ">> \o specific.msg)
        ELSE IF ~environment.ok
        THEN Reject(<<"Error: ">> \o environment.msg)
        ELSE Send(HttpRequest("POST",
                              <<Val(e.CLAPPIA_EXTERNAL_API_BASE_URL),
                                "/appdefinitionv2/addField">>,
                              FieldHeaders(e, a.workplace_id),
                              AddBuildPayload(AddFieldRequest(a))),
                  reply, Returned(AddHandleResponse(reply)))

add_field(e, a, reply) ==
    LET kwargs == Restrict(a, AddOptional)
        app == validate_app_id(Some(a.app_id))
        workplace == validate_workplace_id(Some(a.workplace_id))
        email == validate_email(Some(a.requesting_user_email_address))
        type == validate_field_type(a.field_type)
        label == validate_label(a.label)
        indices == validate_indices(a.section_index, a.field_index)
        specific == validate_field_specific_options(
                        a.field_type, GetOpt(kwargs, "options"),
                        GetOpt(kwargs, "formula"))
        environment == validate_environment_dev(e)
    IN  IF ~app.ok THEN Reject(<<"Error: Invalid app_id - ">> \o app.msg)
        ELSE IF ~workplace.ok
        THEN Reject(<<"Error: Invalid workplace_id - ">> \o workplace.msg)
        ELSE IF ~email.ok
        THEN Reject(<<"Error: Invalid email - ">> \o email.msg)
        ELSE IF ~type.ok
        THEN Reject(<<"Error: Invalid field_type - ">> \o type.msg)
        ELSE IF ~label.ok
        THEN Reject(<<"Error: Invalid label - ">> \o label.msg)
        ELSE IF ~indices.ok
        THEN Reject(<<"Error: Invalid indices - ">> \o indices.msg)
        ELSE IF ~specific.ok
        THEN Reject(<<"Error: Field validation failed - ">> \o specific.msg)
        ELSE IF ~environment.ok
        THEN Reject(<<"Error: ">> \o environment.msg)
        ELSE Send(HttpRequest("POST",
                              <<Val(e.CLAPPIA_EXTERNAL_API_BASE_URL),
                                "/appdefinitionv2/addField">>,
                              FieldHeaders(e, a.workplace_id),
                              AddBuildPayload(AddFieldRequest(a))),
                  reply, Returned(AddHandleResponse(reply)))

\* The module-level function: a fresh client per call
add_field_to_app(e, a, reply) == add_field(e, a, reply)

(***************************************************************************)
(* tools/update_field.py                                                   *)
(***************************************************************************)
VALID_VALIDATIONS == {"none", "number", "email", "url", "custom"}
VALID_STYLES == {"Standard", "Chips"}
VALID_IMAGE_QUALITIES == {"low", "medium", "high"}
VALID_FILE_TYPES ==
    {"images_camera_upload", "images_gallery_upload", "videos", "documents"}

validate_field_name(field_name) ==
    IF Blank(Some(field_name))
    THEN Fail(<<"Field name is required and cannot be empty">>)
    ELSE Ok

\* `if validation and validation not in ...`: None and "" pass
validate_validation_type(validation) ==
    IF ~IsNone(validation) /\ Val(validation) # ""
       /\ Val(validation) \notin VALID_VALIDATIONS
    THEN Fail(<<"Invalid validation type '", Val(validation),
                "'. Valid types: ", Joined("VALID_VALIDATIONS")>>)
    ELSE Ok

validate_style(style) ==
    IF ~IsNone(style) /\ Val(style) # "" /\ Val(style) \notin VALID_STYLES
    THEN Fail(<<"Invalid style '", Val(style), "'. Valid styles: ",
                Joined("VALID_STYLES")>>)
    ELSE Ok

validate_image_quality(image_quality) ==
    IF ~IsNone(image_quality) /\ Val(image_quality) # ""
       /\ Val(image_quality) \notin VALID_IMAGE_QUALITIES
    THEN Fail(<<"Invalid image quality '", Val(image_quality),
                "'. Valid qualities: ", Joined("VALID_IMAGE_QUALITIES")>>)
    ELSE Ok

\* The first file type of the list that is not a valid one is reported
validate_file_types(file_types) ==
    LET l == Val(file_types)
        bad == {i \in 1..Len(l) : l[i] \notin VALID_FILE_TYPES}
        first == CHOOSE i \in bad : \A j \in bad : i <= j
    IN  IF Truthy(file_types) /\ bad # {}
        THEN Fail(<<"Invalid file type '", l[first], "'. Valid types: ",
                    Joined("VALID_FILE_TYPES")>>)
        ELSE Ok

validate_max_file_allowed(max_files) ==
    IF ~IsNone(max_files) /\ (Val(max_files) < 1 \/ Val(max_files) > 10)
    THEN Fail(<<"Max file allowed must be between 1 and 10">>)
    ELSE Ok

UpdateOptional == AddOptional \cup {"label"}

\* The upstream key of each optional attribute
UpstreamKey ==
    [label |-> "label",
     description |-> "description",
     required |-> "required",
     block_width_percentage_desktop |-> "blockWidthPercentageDesktop",
     block_width_percentage_mobile |-> "blockWidthPercentageMobile",
     display_condition |-> "displayCondition",
     retain_values |-> "retainValues",
     is_editable |-> "isEditable",
     editability_condition |-> "editabilityCondition",
     validation |-> "validation",
     default_value |-> "defaultValue",
     options |-> "options",
     style |-> "style",
     number_of_cols |-> "numberOfCols",
     allowed_file_types |-> "allowedFileTypes",
     max_file_allowed |-> "maxFileAllowed",
     image_quality |-> "imageQuality",
     image_text |-> "imageText",
     file_name_prefix |-> "fileNamePrefix",
     formula |-> "formula",
     hidden |-> "hidden"]

\* The attributes whose value is written with .strip()
StrippedAttributes ==
    {"label", "description", "display_condition", "editability_condition",
     "default_value", "image_text", "file_name_prefix", "formula"}

UpdateFieldRequest_required_false(args) ==
    [k \in {"app_id", "workplace_id", "requesting_user_email_address",
            "field_name"} |-> args[k]]
    @@ [k \in UpdateOptional |->
           IF k = "required" THEN Some(Get(args, k, FALSE))
           ELSE GetOpt(args, k)]

\* The dataclass: every optional attribute defaults to None
UpdateFieldRequest(args) ==
    [k \in {"app_id", "workplace_id", "requesting_user_email_address",
            "field_name"} |-> args[k]]
    @@ [k \in UpdateOptional |-> GetOpt(args, k)]

\* ClappiaUpdateFieldClient._build_payload: a key for every attribute that
\* is not None
UpdateBuildPayload(request) ==
    [appId |-> Strip(request.app_id),
     workplaceId |-> Strip(request.workplace_id),
     requestingUserEmailAddress |-> Strip(request.requesting_user_email_address),
     fieldName |-> Strip(request.field_name)]
    @@ When(~IsNone(request.label), "label", Strip(Val(request.label)))
    @@ When(~IsNone(request.description), "description",
            Strip(Val(request.description)))
    @@ When(~IsNone(request.required), "required", Val(request.required))
    @@ When(~IsNone(request.block_width_percentage_desktop),
            "blockWidthPercentageDesktop",
            Val(request.block_width_percentage_desktop))
    @@ When(~IsNone(request.block_width_percentage_mobile),
            "blockWidthPercentageMobile",
            Val(request.block_width_percentage_mobile))
    @@ When(~IsNone(request.display_condition), "displayCondition",
            Strip(Val(request.display_condition)))
    @@ When(~IsNone(request.retain_values), "retainValues",
            Val(request.retain_values))
    @@ When(~IsNone(request.is_editable), "isEditable",
            Val(request.is_editable))
    @@ When(~IsNone(request.editability_condition), "editabilityCondition",
            Strip(Val(request.editability_condition)))
    @@ When(~IsNone(request.validation), "validation",
            Val(request.validation))
    @@ When(~IsNone(request.default_value), "defaultValue",
            Strip(Val(request.default_value)))
    @@ When(~IsNone(request.options), "options", Val(request.options))
    @@ When(~IsNone(request.style), "style", Val(request.style))
    @@ When(~IsNone(request.number_of_cols), "numberOfCols",
            Val(request.number_of_cols))
    @@ When(~IsNone(request.allowed_file_types), "allowedFileTypes",
            Val(request.allowed_file_types))
    @@ When(~IsNone(request.max_file_allowed), "maxFileAllowed",
            Val(request.max_file_allowed))
    @@ When(~IsNone(request.image_quality), "imageQuality",
            Val(request.image_quality))
    @@ When(~IsNone(request.image_text), "imageText",
            Strip(Val(request.image_text)))
    @@ When(~IsNone(request.file_name_prefix), "fileNamePrefix",
            Strip(Val(request.file_name_prefix)))
    @@ When(~IsNone(request.formula), "formula", Strip(Val(request.formula)))
    @@ When(~IsNone(request.hidden), "hidden", Val(request.hidden))

UpdateHandleResponse(response) ==
    IF response.status_code = 200
    THEN IF IsNone(response.json)
         THEN <<"Field updated ", "successfully", ": ", response.text>>
         ELSE IF Val(response.json).type = "dict"
         THEN <<"Field updated ", "successfully", ":\nField Name: ",
                Member(response.json, "fieldName", "Unknown"),
                "\nFull Response: ", Dumps(response.json)>>
         ELSE <<"Field updated ", "successfully", ": ", Dumps(response.json)>>
    ELSE HandleErrorStatus(response)

\* ClappiaUpdateFieldClient.update_field; a holds the four positional
\* arguments and the keyword arguments
update_field(e, a, reply) ==
    LET kwargs == Restrict(a, UpdateOptional)
        app == validate_app_id(Some(a.app_id))
        workplace == validate_workplace_id(Some(a.workplace_id))
        email == validate_email(Some(a.requesting_user_email_address))
        name == validate_field_name(a.field_name)
        validation == validate_validation_type(GetOpt(kwargs, "validation"))
        style == validate_style(GetOpt(kwargs, "style"))
        quality == validate_image_quality(GetOpt(kwargs, "image_quality"))
        types == validate_file_types(GetOpt(kwargs, "allowed_file_types"))
        files == validate_max_file_allowed(GetOpt(kwargs, "max_file_allowed"))
        environment == validate_environment_dev(e)
    IN  IF ~app.ok THEN Reject(<<"Error: Invalid app_id - ">> \o app.msg)
        ELSE IF ~workplace.ok
        THEN Reject(<<"Error: Invalid workplace_id - ">> \o workplace.msg)
        ELSE IF ~email.ok
        THEN Reject(<<"Error: Invalid email - ">> \o email.msg)
        ELSE IF ~name.ok
        THEN Reject(<<"Error: Invalid field_name - ">> \o name.msg)
        ELSE IF ~validation.ok THEN Reject(<<"Error: ">> \o validation.msg)
        ELSE IF ~style.ok THEN Reject(<<"Error: ">> \o style.msg)
        ELSE IF ~quality.ok THEN Reject(<<"Error: ">> \o quality.msg)
        ELSE IF ~types.ok THEN Reject(<<"Error: ">> \o types.msg)
        ELSE IF ~files.ok THEN Reject(<<"Error: ">> \o files.msg)
        ELSE IF ~environment.ok
        THEN Reject(<<"Error: ">> \o environment.msg)
        ELSE Send(HttpRequest("POST",
                              <<Val(e.CLAPPIA_EXTERNAL_API_BASE_URL),
                                "/appdefinitionv2/updateField">>,
                              FieldHeaders(e, a.workplace_id),
                              UpdateBuildPayload(UpdateFieldRequest(a))),
                  reply, Returned(UpdateHandleResponse(reply)))

\* The module-level function: a fresh client per call
update_field_in_app(e, a, reply) == update_field(e, a, reply)

(***************************************************************************)
(* tools/get_submissions.py                                                *)
(***************************************************************************)
FilterOperator ==
    {"CONTAINS", "NOT_IN", "EQ", "NEQ", "EMPTY", "NON_EMPTY", "STARTS_WITH",
     "BETWEEN", "GT", "LT", "GTE", "LTE"}
LogicalOperator == {"AND", "OR"}
FilterKeyType == {"STANDARD", "CUSTOM"}
STANDARD_FIELDS ==
    {"$submissionId", "$owner", "$status", "$createdAt", "$updatedAt",
     "$state", "submissionId", "owner", "status", "createdAt", "updatedAt",
     "state"}

\* The first of the four required fields that the condition lacks
MissingConditionField(condition) ==
    IF ~Has(condition, "operator") THEN Some("operator")
    ELSE IF ~Has(condition, "filterKeyType") THEN Some("filterKeyType")
    ELSE IF ~Has(condition, "key") THEN Some("key")
    ELSE IF ~Has(condition, "value") THEN Some("value")
    ELSE None

\* validate_condition without the test of the value under EMPTY and
\* NON_EMPTY
validate_condition_any_value_when_EMPTY(condition) ==
    IF ~IsNone(MissingConditionField(condition))
    THEN Fail(<<"Condition missing required field: ",
                Val(MissingConditionField(condition))>>)
    ELSE IF condition.operator \notin FilterOperator
    THEN Fail(<<"Invalid operator: ", condition.operator>>)
    ELSE IF condition.filterKeyType \notin FilterKeyType
    THEN Fail(<<"Invalid filterKeyType: ", condition.filterKeyType>>)
    ELSE IF Strip(condition.key) = <<>>
    THEN Fail(<<"Key must be a non-empty string">>)
    ELSE IF /\ condition.filterKeyType = "STANDARD"
            /\ Text(condition.key) \notin STANDARD_FIELDS
    THEN Fail(<<"Standard filterKeyType used but key '", Text(condition.key),
                "' is not a standard field">>)
    ELSE IF condition.operator \in {"EMPTY", "NON_EMPTY"}
    THEN Ok
    ELSE IF Strip(condition.value) = <<>>
    THEN Fail(<<"Operator ", condition.operator,
                " requires a non-empty value">>)
    ELSE Ok

\* operator and filterKeyType are enumerated strings; key and value are
\* strings of characters
validate_condition(condition) ==
    IF ~IsNone(MissingConditionField(condition))
    THEN Fail(<<"Condition missing required field: ",
                Val(MissingConditionField(condition))>>)
    ELSE IF condition.operator \notin FilterOperator
    THEN Fail(<<"Invalid operator: ", condition.operator>>)
    ELSE IF condition.filterKeyType \notin FilterKeyType
    THEN Fail(<<"Invalid filterKeyType: ", condition.filterKeyType>>)
    ELSE IF Strip(condition.key) = <<>>
    THEN Fail(<<"Key must be a non-empty string">>)
    ELSE IF /\ condition.filterKeyType = "STANDARD"
            /\ Text(condition.key) \notin STANDARD_FIELDS
    THEN Fail(<<"Standard filterKeyType used but key '", Text(condition.key),
                "' is not a standard field">>)
    ELSE IF condition.operator \in {"EMPTY", "NON_EMPTY"}
    THEN IF condition.value # <<>> /\ Strip(condition.value) # <<>>
         THEN Fail(<<"Operator ", condition.operator,
                     " should have empty value">>)
         ELSE Ok
    ELSE IF Strip(condition.value) = <<>>
    THEN Fail(<<"Operator ", condition.operator,
                " requires a non-empty value">>)
    ELSE Ok

\* The loop over the conditions of a query, from position k on
RECURSIVE validate_conditions_from(_, _)
validate_conditions_from(conditions, k) ==
    IF k > Len(conditions) THEN Ok
    ELSE LET r == validate_condition(conditions[k])
         IN  IF ~r.ok THEN r ELSE validate_conditions_from(conditions, k + 1)

\* The loop over the queries of a query group, from position j on
RECURSIVE validate_inner_queries_from(_, _)
validate_inner_queries_from(inner_queries, j) ==
    IF j > Len(inner_queries) THEN Ok
    ELSE LET inner_query == inner_queries[j]
             r == validate_conditions_from(inner_query.conditions, 1)
         IN  IF ~Has(inner_query, "conditions")
             THEN Fail(<<"Each query must contain 'conditions'">>)
             ELSE IF inner_query.conditions = <<>>
             THEN Fail(<<"Conditions must be a non-empty list">>)
             ELSE IF ~r.ok THEN r
             ELSE IF /\ Has(inner_query, "operator")
                     /\ inner_query.operator \notin LogicalOperator
             THEN Fail(<<"Invalid logical operator: ", inner_query.operator>>)
             ELSE validate_inner_queries_from(inner_queries, j + 1)

\* The loop over the query groups, from position i on
RECURSIVE validate_query_groups_from(_, _)
validate_query_groups_from(queries, i) ==
    IF i > Len(queries) THEN Ok
    ELSE LET r == validate_inner_queries_from(queries[i].queries, 1)
         IN  IF ~Has(queries[i], "queries")
             THEN Fail(<<"Each query group must contain 'queries' key">>)
             ELSE IF ~r.ok THEN r
             ELSE validate_query_groups_from(queries, i + 1)

validate_filters(filters) ==
    IF ~Has(filters, "queries")
    THEN Fail(<<"Filters must contain 'queries' key">>)
    ELSE IF filters.queries = <<>>
    THEN Fail(<<"Queries must be a non-empty list">>)
    ELSE validate_query_groups_from(filters.queries, 1)

(***************************************************************************)
(* The validators applied to strings and to conditions                     *)
(***************************************************************************)
Condition(operator, filterKeyType, key, value) ==
    [operator |-> operator, filterKeyType |-> filterKeyType, key |-> key,
     value |-> value]

ConditionKeys ==
    {<<>>, <<" ">>, <<"k">>, <<"$", "s", "t", "a", "t", "e">>,
     <<" ", "s", "t", "a", "t", "e">>, <<"o", "w", "n", "e", "r">>}

ConditionValues == {<<>>, <<" ">>, <<"v">>, <<" ", "v">>, <<"\n", "\t">>}

FullConditions ==
    {Condition(operator, filterKeyType, key, value) :
        operator \in FilterOperator \cup {"LIKE"},
        filterKeyType \in FilterKeyType \cup {"OTHER"},
        key \in ConditionKeys, value \in ConditionValues}

\* Conditions that lack one or two of the four fields
PartialConditions ==
    {Restrict(Condition(operator, "CUSTOM", <<"k">>, <<"v">>), fields) :
        operator \in {"EQ", "LIKE"},
        fields \in (SUBSET {"operator", "filterKeyType", "key", "value"})
                   \ {{"operator", "filterKeyType", "key", "value"}}}

Check_validate_condition ==
    /\ phase = "idle"
    /\ \E condition \in FullConditions \cup PartialConditions :
          Complete("validate_condition", "validator",
                   [condition |-> condition],
                   Pure(validate_condition(condition)))

InitValidators ==
    /\ phase = "idle"
    /\ env = ConfiguredEnv
    /\ call = NoCall
    /\ outcome = NoOutcome
    /\ requests = <<>>
    /\ delegated = <<>>

NextValidators ==
    \/ Check_validate_app_id
    \/ Check_validate_workplace_id
    \/ Check_validate_required_params
    \/ Check_validate_email
    \/ Check_ClappiaValidator_validate_email
    \/ Check_validate_condition
    \/ Return

SpecValidators == InitValidators /\ [][NextValidators]_vars

\* response_data.get(...) raises AttributeError on JSON that is not an
\* object
SubmissionsHandleResponse(response) ==
    IF response.status_code = 200
    THEN IF IsNone(response.json)
         THEN Returned(<<"Success but invalid JSON response: ", response.text>>)
         ELSE IF Val(response.json).type # "dict"
         THEN Raised("AttributeError")
         ELSE IF "submissions" \in Val(response.json).nulls
         THEN Raised("TypeError")
         ELSE Returned(<<"Successfully", " retrieved ",
                         ToString(Len(Get(Val(response.json).members,
                                          "submissions", <<>>))),
                         " submissions: ", Dumps(response.json)>>)
    ELSE Returned(HandleErrorStatus(response))

\* ClappiaAPIClient.get_app_submissions and the module-level function, which
\* makes a fresh client per call; filters is None or a dict
get_app_submissions(e, app_id, requesting_user_email_address, page_size, filters, reply) ==
    LET checked == validate_filters(Val(filters))
        environment == validate_environment_workplace(e)
    IN  IF Blank(Some(app_id))
        THEN Reject(<<"Error: app_id is required and cannot be empty">>)
        ELSE IF Blank(Some(requesting_user_email_address))
        THEN Reject(<<"Error: requesting_user_email_address is required and cannot be empty">>)
        ELSE IF ~ClappiaValidator_validate_email(requesting_user_email_address)
        THEN Reject(<<"Error: requesting_user_email_address must be a valid email address">>)
        ELSE IF page_size <= 0
        THEN Reject(<<"Error: page_size must be a positive integer">>)
        ELSE IF page_size > 1000
        THEN Reject(<<"Error: page_size cannot exceed 1000">>)
        ELSE IF ~IsNone(filters) /\ ~checked.ok
        THEN Reject(<<"Error: Invalid filters - ">> \o checked.msg)
        ELSE IF ~environment.ok
        THEN Reject(<<"Error: ">> \o environment.msg)
        ELSE Send(HttpRequest("POST",
                              <<Interpolated(constants_BASE_URL(e)),
                                "/submissions/getSubmissions">>,
                              [x_api_key |-> Val(e.CLAPPIA_API_KEY),
                               Content_Type |-> "application/json"],
                              [workplaceId |-> Val(e.CLAPPIA_WORKPLACE_ID),
                               appId |-> Strip(app_id),
                               requestingUserEmailAddress |->
                                   Strip(requesting_user_email_address),
                               pageSize |-> page_size,
                               forward |-> TRUE]
                              @@ When(~IsNone(filters)
                                          /\ DOMAIN Val(filters) # {},
                                      "filters", Val(filters))),
                  reply, SubmissionsHandleResponse(reply))

(***************************************************************************)
(* tools/get_submissions_aggregation.py                                    *)
(***************************************************************************)
AggregationHandleResponse(response) ==
    IF response.status_code = 200
    THEN IF IsNone(response.json)
         THEN <<"Success but invalid JSON response: ", response.text>>
         ELSE <<"Successfully", " retrieved aggregated data: ",
                Dumps(response.json)>>
    ELSE HandleErrorStatus(response)

\* ClappiaAggregationAPIClient.get_app_submissions_aggregation and the
\* module-level function, which replaces a None list by [] and supplies the
\* defaults of the arguments not given
get_app_submissions_aggregation(e, a, reply) ==
    LET dimensions == Get(a, "dimensions", <<>>)
        aggregation_dimensions == Get(a, "aggregation_dimensions", <<>>)
        x_axis_labels == Get(a, "x_axis_labels", <<>>)
        email == Get(a, "requesting_user_email_address",
                     <<"d", "e", "v", "@", "c", "l", "a", "p", "p", "i", "a",
                       ".", "c", "o", "m">>)
        filters == GetOpt(a, "filters")
        environment == validate_environment_dev(e)
    IN  IF Blank(Some(a.workplace_id))
        THEN Reject(<<"Error: workplace_id is required and cannot be empty">>)
        ELSE IF Blank(Some(a.app_id))
        THEN Reject(<<"Error: app_id is required and cannot be empty">>)
        ELSE IF dimensions = <<>> /\ aggregation_dimensions = <<>>
        THEN Reject(<<"Error: At least one dimension or aggregation dimension must be provided">>)
        ELSE IF ~environment.ok
        THEN Reject(<<"Error: ">> \o environment.msg)
        ELSE Send(HttpRequest("POST",
                              <<Val(e.CLAPPIA_EXTERNAL_API_BASE_URL),
                                "/submissions/getSubmissionsAggregation">>,
                              [x_api_key |-> Val(e.DEV_API_KEY),
                               Content_Type |-> "application/json"],
                              [workplaceId |-> Strip(a.workplace_id),
                               appId |-> Strip(a.app_id),
                               requestingUserEmailAddress |-> email,
                               forward |-> Get(a, "forward", TRUE),
                               pageSize |-> Get(a, "page_size", 1000),
                               dimensions |-> dimensions,
                               aggregationDimensions |-> aggregation_dimensions,
                               xAxisLabels |-> x_axis_labels]
                              @@ When(~IsNone(filters)
                                          /\ DOMAIN Val(filters) # {},
                                      "filters", Val(filters))),
                  reply, Returned(AggregationHandleResponse(reply)))

(***************************************************************************)
(* tools/get_definition.py                                                 *)
(***************************************************************************)
VALID_LANGUAGES == {"en", "es", "fr", "de"}

validate_language(language) ==
    IF language \notin VALID_LANGUAGES
    THEN Fail(<<"Language must be one of: ", Joined("VALID_LANGUAGES")>>)
    ELSE Ok

\* str(strip_html).lower()
LowerStr(b) == IF b THEN "true" ELSE "false"

\* response_data.get(...) raises AttributeError on JSON that is not an
\* object
DefinitionHandleResponse(response) ==
    IF response.status_code = 200
    THEN IF IsNone(response.json)
         THEN Returned(<<"Success but invalid JSON response: ", response.text>>)
         ELSE IF Val(response.json).type # "dict"
         THEN Raised("AttributeError")
         ELSE IF {"pageIds", "sectionIds", "fieldDefinitions"}
                    \cap Val(response.json).nulls # {}
         THEN Raised("TypeError")
         ELSE IF "metadata" \in Val(response.json).nulls
         THEN Raised("AttributeError")
         ELSE Returned(<<"Successfully", " retrieved app definition:\n\nSUMMARY:\n",
                         "json.dumps(app_info)", "\n\nFULL DEFINITION:\n",
                         Dumps(response.json)>>)
    ELSE Returned(HandleErrorStatus(response))

\* ClappiaAppDefinitionClient.get_app_definition and the module-level
\* function, which makes a fresh client per call
get_app_definition(e, a, reply) ==
    LET language == Get(a, "language", "en")
        app == validate_app_id(Some(a.app_id))
        workplace == validate_workplace_id(Some(a.workplace_id))
        lang == validate_language(language)
        environment == validate_environment_dev(e)
    IN  IF ~app.ok THEN Reject(<<"Error: Invalid app_id - ">> \o app.msg)
        ELSE IF ~workplace.ok
        THEN Reject(<<"Error: Invalid workplace_id - ">> \o workplace.msg)
        ELSE IF ~lang.ok
        THEN Reject(<<"Error: Invalid language - ">> \o lang.msg)
        ELSE IF ~environment.ok
        THEN Reject(<<"Error: ">> \o environment.msg)
        ELSE Send(HttpRequest("GET",
                              <<Val(e.CLAPPIA_EXTERNAL_API_BASE_URL),
                                "/appdefinition-external/getAppDefinition">>,
                              [x_api_key |-> Val(e.DEV_API_KEY),
                               Content_Type |-> "application/json"],
                              [appId |-> Strip(a.app_id),
                               workplaceId |-> Strip(a.workplace_id),
                               requestingUserEmailAddress |->
                                   a.requesting_user_email_address,
                               language |-> language,
                               stripHtml |-> LowerStr(Get(a, "strip_html", TRUE)),
                               includeTags |-> LowerStr(Get(a, "include_tags", TRUE))]),
                  reply, DefinitionHandleResponse(reply))

(***************************************************************************)
(* tools/create_app.py                                                     *)
(***************************************************************************)
CREATE_VALID_FIELD_TYPES ==
    {"singleLineText", "multiLineText", "singleSelector", "multiSelector",
     "dropDown", "dateSelector", "timeSelector", "phoneNumber"}

\* The shortest app name accepted
MinAppNameLen == 3

\* Field(...): options defaults to None and required to False
Field(d) ==
    [fieldType |-> d.fieldType,
     label |-> d.label,
     options |-> GetOpt(d, "options"),
     required |-> Get(d, "required", FALSE)]

Section(sectionName, fields) == [sectionName |-> sectionName, fields |-> fields]

Field_to_dict(field) ==
    [fieldType |-> field.fieldType,
     label |-> field.label,
     required |-> field.required]
    @@ When(Truthy(field.options), "options", Val(field.options))

Section_to_dict(section) ==
    [sectionName |-> section.sectionName,
     fields |-> [j \in 1..Len(section.fields) |->
                    Field_to_dict(section.fields[j])]]

validate_app_name(app_name) ==
    IF Blank(Some(app_name))
    THEN Fail(<<"App name is required and cannot be empty">>)
    ELSE IF Len(Strip(app_name)) < MinAppNameLen
    THEN Fail(<<"App name must be at least 3 characters long">>)
    ELSE Ok

\* The checks of one field, j counted from 0
validate_section_field(section, field, j) ==
    IF field.fieldType \notin CREATE_VALID_FIELD_TYPES
    THEN Fail(<<"Invalid fieldType '", field.fieldType,
                "' in field at index ", ToString(j)>>)
    ELSE IF Blank(Some(field.label))
    THEN Fail(<<"Field at index ", ToString(j), " in section '",
                Text(section.sectionName), "' must have a non-empty label">>)
    ELSE IF /\ field.fieldType \in {"singleSelector", "multiSelector", "dropDown"}
            /\ ~Truthy(field.options)
    THEN Fail(<<"Field '", Text(field.label), "' with type '",
                field.fieldType, "' must have ", "options">>)
    ELSE Ok

\* The loop over the fields of a section run from the last field to the
\* first
RECURSIVE validate_section_fields_last_first(_, _)
validate_section_fields_last_first(section, j) ==
    IF j > Len(section.fields) THEN Ok
    ELSE LET n == Len(section.fields) + 1 - j
             r == validate_section_field(section, section.fields[n], n - 1)
         IN  IF ~r.ok THEN r
             ELSE validate_section_fields_last_first(section, j + 1)

\* The loop over the fields of a section, from the field at position j on
RECURSIVE validate_section_fields(_, _)
validate_section_fields(section, j) ==
    IF j > Len(section.fields) THEN Ok
    ELSE LET r == validate_section_field(section, section.fields[j], j - 1)
         IN  IF ~r.ok THEN r ELSE validate_section_fields(section, j + 1)

\* The loop over the sections, from the section at position i on
RECURSIVE validate_sections_from(_, _)
validate_sections_from(sections, i) ==
    IF i > Len(sections) THEN Ok
    ELSE LET section == sections[i]
         IN  IF Blank(Some(section.sectionName))
             THEN Fail(<<"Section at index ", ToString(i - 1),
                         " must have a non-empty sectionName">>)
             ELSE IF section.fields = <<>>
             THEN Fail(<<"Section '", Text(section.sectionName),
                         "' must have at least one field">>)
             ELSE LET r == validate_section_fields(section, 1)
                  IN  IF ~r.ok THEN r
                      ELSE validate_sections_from(sections, i + 1)

validate_sections(sections) ==
    IF sections = <<>> THEN Fail(<<"At least one section is required">>)
    ELSE validate_sections_from(sections, 1)

\* response_data.get(...) raises AttributeError on JSON that is not an
\* object
CreateHandleResponse(response) ==
    IF response.status_code = 200
    THEN IF IsNone(response.json)
         THEN Returned(<<"App created ", "successfully", ": ", response.text>>)
         ELSE IF Val(response.json).type = "dict"
         THEN Returned(<<"App created ", "successfully", ":\nApp ID: ",
                         Member(response.json, "appId", "None"),
                         "\nApp URL: ",
                         Member(response.json, "appUrl", "None"),
                         "\nFull Response: ", Dumps(response.json)>>)
         ELSE Raised("AttributeError")
    ELSE Returned(HandleErrorStatus(response))

\* _get_headers of the app-creation client without the workplace header
CreateHeaders_without_workplaceId(e) ==
    [x_api_key |-> Val(e.CLAPPIA_API_KEY),
     Content_Type |-> "application/json"]

CreateHeaders(e) ==
    [x_api_key |-> Val(e.CLAPPIA_API_KEY),
     workplaceId |-> Val(e.CLAPPIA_WORKPLACE_ID),
     Content_Type |-> "application/json"]

\* ClappiaCreateAppClient.create_app and the module-level function, which
\* makes a fresh client per call
create_app(e, app_name, requesting_user_email_address, sections, reply) ==
    LET name == validate_app_name(app_name)
        email == validate_email(Some(requesting_user_email_address))
        secs == validate_sections(sections)
        environment == validate_environment_workplace(e)
    IN  IF ~name.ok THEN Reject(<<"Error: Invalid app_name - ">> \o name.msg)
        ELSE IF ~email.ok
        THEN Reject(<<"Error: Invalid email - ">> \o email.msg)
        ELSE IF ~secs.ok
        THEN Reject(<<"Error: Invalid sections - ">> \o secs.msg)
        ELSE IF ~environment.ok
        THEN Reject(<<"Error: ">> \o environment.msg)
        ELSE Send(HttpRequest("POST",
                              <<Interpolated(constants_BASE_URL(e)),
                                "/appdefinitionv2/createApp">>,
                              CreateHeaders(e),
                              [appName |-> Strip(app_name),
                               requestingUserEmailAddress |->
                                   Strip(requesting_user_email_address),
                               sections |->
                                   [i \in 1..Len(sections) |->
                                       Section_to_dict(sections[i])]]),
                  reply, CreateHandleResponse(reply))

(***************************************************************************)
(* tools/create_submission.py, tools/edit_submission.py,                   *)
(* tools/update_submission_status.py, tools/update_submission_owners.py    *)
(***************************************************************************)
validate_submission_id(submission_id) ==
    IF Blank(submission_id)
    THEN Fail(<<"Submission ID is required and cannot be empty">>)
    ELSE Ok

\* data is a dict: `not data` holds of None and of {}
validate_data(data) ==
    IF IsNone(data) \/ DOMAIN Val(data) = {}
    THEN Fail(<<"Data cannot be empty">>)
    ELSE Ok

\* status is the dict update_app_submission_status has just built
validate_status(status) ==
    IF DOMAIN status = {} THEN Fail(<<"Status cannot be empty">>)
    ELSE IF ~Has(status, "name")
    THEN Fail(<<"Status must contain 'name' field">>)
    ELSE IF Blank(Some(status.name))
    THEN Fail(<<"Status name is required and cannot be empty">>)
    ELSE Ok

\* The loop over the email ids, from position i on
RECURSIVE validate_email_ids_from(_, _)
validate_email_ids_from(email_ids, i) ==
    IF i > Len(email_ids) THEN Ok
    ELSE IF Blank(Some(email_ids[i]))
    THEN Fail(<<"Email at index ", ToString(i - 1), " is empty">>)
    ELSE IF ~MatchEmailPattern(Strip(email_ids[i]))
    THEN Fail(<<"Invalid email format at index ", ToString(i - 1), ": ",
                Text(email_ids[i])>>)
    ELSE validate_email_ids_from(email_ids, i + 1)

validate_email_ids(email_ids) ==
    IF email_ids = <<>> THEN Fail(<<"Email IDs list cannot be empty">>)
    ELSE validate_email_ids_from(email_ids, 1)

CreateSubmissionHandleResponse(response) ==
    IF response.status_code \in {200, 201}
    THEN IF IsNone(response.json)
         THEN <<"Submission created ", "successfully", ": ", response.text>>
         ELSE <<"Submission created ", "successfully", ":\n",
                Dumps(response.json)>>
    ELSE HandleErrorStatus(response)

EditSubmissionHandleResponse(response) ==
    IF response.status_code = 200
    THEN IF IsNone(response.json)
         THEN <<"Submission edited ", "successfully", ": ", response.text>>
         ELSE <<"Submission edited ", "successfully", ":\n",
                Dumps(response.json)>>
    ELSE HandleErrorStatus(response)

UpdateStatusHandleResponse(response) ==
    IF response.status_code = 200
    THEN IF IsNone(response.json)
         THEN <<"Submission status updated ", "successfully", ": ",
                response.text>>
         ELSE <<"Submission status updated ", "successfully", ":\n",
                Dumps(response.json)>>
    ELSE HandleErrorStatus(response)

UpdateOwnersHandleResponse(response) ==
    IF response.status_code = 200
    THEN IF IsNone(response.json)
         THEN <<"Submission owners updated ", "successfully", ": ",
                response.text>>
         ELSE <<"Submission owners updated ", "successfully", ":\n",
                Dumps(response.json)>>
    ELSE HandleErrorStatus(response)

SubmissionHeaders(api_key) ==
    [x_api_key |-> api_key, Content_Type |-> "application/json"]

create_app_submission(e, a, reply) ==
    LET app == validate_app_id(Some(a.app_id))
        email == validate_email(Some(a.email))
        workplace == validate_workplace_id(Some(a.workplace_id))
        data == validate_data(Some(a.data))
        environment == validate_environment_dev(e)
    IN  IF ~app.ok THEN Reject(<<"Error: Invalid app_id - ">> \o app.msg)
        ELSE IF ~email.ok
        THEN Reject(<<"Error: Invalid email - ">> \o email.msg)
        ELSE IF ~workplace.ok
        THEN Reject(<<"Error: Invalid workplace_id - ">> \o workplace.msg)
        ELSE IF ~data.ok THEN Reject(<<"Error: Invalid data - ">> \o data.msg)
        ELSE IF ~environment.ok
        THEN Reject(<<"Error: ">> \o environment.msg)
        ELSE Send(HttpRequest("POST",
                              <<Val(e.CLAPPIA_EXTERNAL_API_BASE_URL),
                                "/submissions/create">>,
                              SubmissionHeaders(Val(e.DEV_API_KEY)),
                              [appId |-> Strip(a.app_id),
                               requestingUserEmailAddress |-> Strip(a.email),
                               data |-> a.data,
                               workplaceId |-> Strip(a.workplace_id)]),
                  reply, Returned(CreateSubmissionHandleResponse(reply)))

edit_app_submission(e, a, reply) ==
    LET app == validate_app_id(Some(a.app_id))
        submission == validate_submission_id(Some(a.submission_id))
        email == validate_email(Some(a.email))
        data == validate_data(Some(a.data))
        environment == validate_environment_workplace(e)
    IN  IF ~app.ok THEN Reject(<<"Error: Invalid app_id - ">> \o app.msg)
        ELSE IF ~submission.ok
        THEN Reject(<<"Error: Invalid submission_id - ">> \o submission.msg)
        ELSE IF ~email.ok
        THEN Reject(<<"Error: Invalid email - ">> \o email.msg)
        ELSE IF ~data.ok THEN Reject(<<"Error: Invalid data - ">> \o data.msg)
        ELSE IF ~environment.ok
        THEN Reject(<<"Error: ">> \o environment.msg)
        ELSE Send(HttpRequest("POST",
                              <<Interpolated(constants_BASE_URL(e)),
                                "/submissions/edit">>,
                              SubmissionHeaders(Val(e.CLAPPIA_API_KEY)),
                              [appId |-> Strip(a.app_id),
                               workplaceId |-> Val(e.CLAPPIA_WORKPLACE_ID),
                               submissionId |-> Strip(a.submission_id),
                               requestingUserEmailAddress |-> Strip(a.email),
                               data |-> a.data]),
                  reply, Returned(EditSubmissionHandleResponse(reply)))

update_app_submission_status(e, a, reply) ==
    LET app == validate_app_id(Some(a.app_id))
        submission == validate_submission_id(Some(a.submission_id))
        email == validate_email(Some(a.email))
        comments == GetOpt(a, "comments")
        status == ("name" :> Strip(a.status_name))
                  @@ When(Truthy(comments), "comments", Strip(Val(comments)))
        checked == validate_status(status)
        environment == validate_environment_workplace(e)
    IN  IF ~app.ok THEN Reject(<<"Error: Invalid app_id - ">> \o app.msg)
        ELSE IF ~submission.ok
        THEN Reject(<<"Error: Invalid submission_id - ">> \o submission.msg)
        ELSE IF ~email.ok
        THEN Reject(<<"Error: Invalid email - ">> \o email.msg)
        ELSE IF ~checked.ok
        THEN Reject(<<"Error: Invalid status - ">> \o checked.msg)
        ELSE IF ~environment.ok
        THEN Reject(<<"Error: ">> \o environment.msg)
        ELSE Send(HttpRequest("POST",
                              <<Interpolated(constants_BASE_URL(e)),
                                "/submissions/updateStatus">>,
                              SubmissionHeaders(Val(e.CLAPPIA_API_KEY)),
                              [appId |-> Strip(a.app_id),
                               workplaceId |-> Val(e.CLAPPIA_WORKPLACE_ID),
                               submissionId |-> Strip(a.submission_id),
                               requestingUserEmailAddress |-> Strip(a.email),
                               status |-> status]),
                  reply, Returned(UpdateStatusHandleResponse(reply)))

update_app_submission_owners(e, a, reply) ==
    LET app == validate_app_id(Some(a.app_id))
        workplace == validate_workplace_id(Some(a.workplace_id))
        submission == validate_submission_id(Some(a.submission_id))
        email == validate_email(Some(a.email))
        ids == validate_email_ids(a.email_ids)
        environment == validate_environment_dev(e)
    IN  IF ~app.ok THEN Reject(<<"Error: Invalid app_id - ">> \o app.msg)
        ELSE IF ~workplace.ok
        THEN Reject(<<"Error: Invalid workplace_id - ">> \o workplace.msg)
        ELSE IF ~submission.ok
        THEN Reject(<<"Error: Invalid submission_id - ">> \o submission.msg)
        ELSE IF ~email.ok
        THEN Reject(<<"Error: Invalid email - ">> \o email.msg)
        ELSE IF ~ids.ok
        THEN Reject(<<"Error: Invalid email_ids - ">> \o ids.msg)
        ELSE IF ~environment.ok
        THEN Reject(<<"Error: ">> \o environment.msg)
        ELSE Send(HttpRequest("POST",
                              <<Val(e.CLAPPIA_EXTERNAL_API_BASE_URL),
                                "/submissions/updateSubmissionOwners">>,
                              SubmissionHeaders(Val(e.DEV_API_KEY)),
                              [appId |-> Strip(a.app_id),
                               workplaceId |-> Strip(a.workplace_id),
                               submissionId |-> Strip(a.submission_id),
                               requestingUserEmailAddress |-> Strip(a.email),
                               emailIds |->
                                   [i \in 1..Len(a.email_ids) |->
                                       Strip(a.email_ids[i])]]),
                  reply, Returned(UpdateOwnersHandleResponse(reply)))

(***************************************************************************)
(* clappia-mcp.py: create_clappia_app                                      *)
(***************************************************************************)
\* The first key the conversion of the fields of a section dict looks up
\* and does not find, from the field at position j on; None when it finds
\* them all
RECURSIVE MissingFieldKey(_, _)
MissingFieldKey(fields, j) ==
    IF j > Len(fields) THEN None
    ELSE IF ~Has(fields[j], "fieldType") THEN Some("fieldType")
    ELSE IF ~Has(fields[j], "label") THEN Some("label")
    ELSE MissingFieldKey(fields, j + 1)

\* The same for the section dicts from position i on: the fields of a
\* section are converted before its sectionName is looked up
RECURSIVE MissingKey(_, _)
MissingKey(sections, i) ==
    IF i > Len(sections) THEN None
    ELSE LET missing == MissingFieldKey(Get(sections[i], "fields", <<>>), 1)
         IN  IF ~IsNone(missing) THEN missing
             ELSE IF ~Has(sections[i], "sectionName") THEN Some("sectionName")
             ELSE MissingKey(sections, i + 1)

\* The Section objects built from the section dicts: fieldType, label and
\* options are copied and nothing else
SectionObjects(sections) ==
    [i \in 1..Len(sections) |->
        LET fields == Get(sections[i], "fields", <<>>)
        IN  Section(sections[i].sectionName,
                    [j \in 1..Len(fields) |->
                        Field(Restrict(fields[j],
                                       {"fieldType", "label", "options"}))])]

Delegation(callee, args) == [callee |-> callee, args |-> args]

create_clappia_app(e, app_name, requesting_user_email_address, sections, reply) ==
    LET gate == validate_required_params(Some(requesting_user_email_address))
        missing == MissingKey(sections, 1)
        objects == SectionObjects(sections)
        result == create_app(e, app_name, requesting_user_email_address,
                             objects, reply)
    IN  IF ~gate.ok THEN Reject(<<"Error: ">> \o gate.msg)
        ELSE IF ~IsNone(missing)
        THEN Reject(<<"Error converting sections: ", "'", Val(missing), "'">>)
        ELSE Result(result.outcome, result.requests,
                    <<Delegation("create_app",
                                 [app_name |-> app_name,
                                  requesting_user_email_address |->
                                      requesting_user_email_address,
                                  sections |-> objects])>>)

(***************************************************************************)
(* clappia-mcp.py: the other tools                                         *)
(***************************************************************************)
\* A call f(**kwargs) of a function whose parameters without a default are
\* `required`: Python raises TypeError before the body runs when one of
\* them is not given, and the tools do not catch it
Invoke(callee, required, kwargs, result) ==
    IF required \subseteq DOMAIN kwargs
    THEN Result(result.outcome, result.requests,
                <<Delegation(callee, kwargs)>>)
    ELSE Result(Raised("TypeError"), <<>>, <<Delegation(callee, kwargs)>>)

\* A method of clappia_tools.ClappiaClient, a library outside this
\* repository: result is the string it returned, and the requests it issued
\* are its own
InvokeClient(method, args, result) ==
    Result(Returned(result), <<>>,
           <<Delegation("ClappiaClient." \o method, args)>>)

\* What a method of the client library returns
ClientResults ==
    {<<"Submission ", "successfully", " processed">>, <<"Error: ", "upstream">>}

Gated_blank_only(requesting_user_email_address, body) ==
    IF Blank(Some(requesting_user_email_address))
    THEN Reject(<<"Error: ",
                  "Email address is required. Please provide a valid email address.">>)
    ELSE body

\* The gate each tool starts with
Gated(requesting_user_email_address, body) ==
    LET gate == validate_required_params(Some(requesting_user_email_address))
    IN  IF ~gate.ok THEN Reject(<<"Error: ">> \o gate.msg) ELSE body

get_clappia_submissions(e, a, reply) ==
    LET page_size == Get(a, "page_size", 10)
        filters == GetOpt(a, "filters")
    IN  Gated(a.requesting_user_email_address,
              Invoke("get_app_submissions",
                     {"app_id", "requesting_user_email_address"},
                     [app_id |-> a.app_id,
                      requesting_user_email_address |->
                          a.requesting_user_email_address,
                      page_size |-> page_size,
                      filters |-> filters],
                     get_app_submissions(e, a.app_id,
                                         a.requesting_user_email_address,
                                         page_size, filters, reply)))

\* `dimensions or []`; no workplace_id is passed
get_clappia_submissions_aggregation(e, a, reply) ==
    LET kwargs == [app_id |-> a.app_id,
                   dimensions |-> Get(a, "dimensions", <<>>),
                   aggregation_dimensions |->
                       Get(a, "aggregation_dimensions", <<>>),
                   x_axis_labels |-> Get(a, "x_axis_labels", <<>>),
                   requesting_user_email_address |->
                       a.requesting_user_email_address,
                   forward |-> Get(a, "forward", TRUE),
                   page_size |-> Get(a, "page_size", 1000)]
                  @@ When(Has(a, "filters"), "filters", Get(a, "filters", <<>>))
    IN  Gated(a.requesting_user_email_address,
              Invoke("get_app_submissions_aggregation",
                     {"workplace_id", "app_id"}, kwargs,
                     get_app_submissions_aggregation(e, kwargs, reply)))

get_clappia_app_definition(a, result) ==
    Gated(a.requesting_user_email_address,
          InvokeClient("get_app_definition",
                       <<a.app_id, Get(a, "language", "en"),
                         Get(a, "strip_html", TRUE),
                         Get(a, "include_tags", TRUE)>>,
                       result))

create_clappia_app_submission(a, result) ==
    Gated(a.requesting_user_email_address,
          InvokeClient("create_submission",
                       <<a.app_id, a.data, a.requesting_user_email_address>>,
                       result))

edit_clappia_submission(a, result) ==
    Gated(a.requesting_user_email_address,
          InvokeClient("edit_submission",
                       <<a.app_id, a.submission_id, a.data,
                         a.requesting_user_email_address>>,
                       result))

update_clappia_submission_status(a, result) ==
    Gated(a.requesting_user_email_address,
          InvokeClient("update_submission_status",
                       <<a.app_id, a.submission_id,
                         a.requesting_user_email_address, a.status_name,
                         GetOpt(a, "comments")>>,
                       result))

update_clappia_submission_owners(a, result) ==
    Gated(a.requesting_user_email_address,
          InvokeClient("update_submission_owners",
                       <<a.app_id, a.submission_id,
                         a.requesting_user_email_address, a.email_ids>>,
                       result))

\* The defaults of the parameters of add_field_to_clappia_app that have one
\* other than None
AddToolDefaults ==
    [required |-> FALSE,
     block_width_percentage_desktop |-> 100,
     block_width_percentage_mobile |-> 100,
     retain_values |-> FALSE,
     is_editable |-> TRUE,
     validation |-> "none",
     style |-> "Standard",
     max_file_allowed |-> 1,
     image_quality |-> "medium"]

\* kwargs with `if is_editable:` in place of `if is_editable is not True:`
AddToolKwargs_is_editable_when_true(a) ==
    [k \in {x \in (DOMAIN a) \cap AddOptional :
              IF x = "is_editable" THEN a[x]
              ELSE x \in DOMAIN AddToolDefaults => a[x] # AddToolDefaults[x]}
        |-> a[k]]

\* kwargs of add_field_to_clappia_app: an argument is passed on when it is
\* not None and not the default of its parameter
AddToolKwargs(a) ==
    [k \in {x \in (DOMAIN a) \cap AddOptional :
              x \in DOMAIN AddToolDefaults => a[x] # AddToolDefaults[x]}
        |-> a[k]]

\* No workplace_id is passed
add_field_to_clappia_app(e, a, reply) ==
    LET kwargs == Restrict(a, {"app_id", "requesting_user_email_address",
                               "section_index", "field_index", "field_type",
                               "label"})
                  @@ AddToolKwargs(a)
    IN  Gated(a.requesting_user_email_address,
              Invoke("add_field_to_app", AddRequired, kwargs,
                     add_field_to_app(e, kwargs, reply)))

\* kwargs of update_field_in_clappia_app: every argument that is not None;
\* no workplace_id is passed
update_field_in_clappia_app(e, a, reply) ==
    LET kwargs == Restrict(a, {"app_id", "requesting_user_email_address",
                               "field_name"} \cup UpdateOptional)
    IN  Gated(a.requesting_user_email_address,
              Invoke("update_field_in_app",
                     {"app_id", "workplace_id",
                      "requesting_user_email_address", "field_name"},
                     kwargs, update_field_in_app(e, kwargs, reply)))

(***************************************************************************)
(* Invocations of the field operations                                     *)
(*                                                                         *)
(* The arguments of an invocation are those of a base call with at most    *)
(* MaxVaried of them set to another value.                                 *)
(***************************************************************************)
MaxVaried == 1

GoodAppId == <<"A", "1">>
GoodWorkplaceId == <<"W", "1">>
GoodEmail == <<"a", "@", "b", ".", "c", "o">>

\* The values an argument of the field operations takes besides the one of
\* the base call
FieldChoices ==
    [app_id |-> {<<>>, <<" ">>, <<"a", "1">>, <<" ", "A", "1", " ">>},
     workplace_id |-> {<<>>, <<"w", "1">>, <<" ", "W", "1", " ">>},
     requesting_user_email_address |->
         {<<>>, <<"a", "@", "b">>, <<" ">> \o GoodEmail \o <<" ">>},
     section_index |-> {-1, 1},
     field_index |-> {-1, 1},
     field_name |-> {<<>>, <<" ">>, <<" ", "f", " ">>},
     label |-> {<<>>, <<" ">>, <<" ", "L", " ">>},
     description |-> {<<>>, <<"d">>, <<" ", "d", " ">>},
     required |-> BOOLEAN,
     block_width_percentage_desktop |-> {0, 50, 100},
     block_width_percentage_mobile |-> {0, 50, 100},
     display_condition |-> {<<>>, <<" ", "c">>},
     retain_values |-> BOOLEAN,
     is_editable |-> BOOLEAN,
     editability_condition |-> {<<>>, <<"e", " ">>},
     validation |-> {"", "none", "email", "bogus"},
     default_value |-> {<<>>, <<" ", "v", " ">>},
     options |-> {<<>>, <<"x">>, <<"x", "y">>},
     style |-> {"", "Standard", "Chips", "bogus"},
     number_of_cols |-> {0, 2},
     allowed_file_types |-> {<<>>, <<"videos">>, <<"videos", "bogus">>},
     max_file_allowed |-> {0, 1, 5, 11},
     image_quality |-> {"", "medium", "high", "bogus"},
     image_text |-> {<<>>, <<" ", "t">>},
     file_name_prefix |-> {<<>>, <<"p", " ">>},
     formula |-> {<<>>, <<" ">>, <<" ", "f", " ">>},
     hidden |-> BOOLEAN]

\* One of the arguments named in keys set to one of its values
Varied1(keys) == UNION {{k :> v : v \in FieldChoices[k]} : k \in keys}

\* At most n of them
RECURSIVE Varied(_, _)
Varied(keys, n) ==
    IF n = 0 THEN {EmptyDict}
    ELSE {a @@ b : a \in Varied(keys, n - 1),
                   b \in Varied1(keys) \cup {EmptyDict}}

AddBaseCall(field_type, kwargs) ==
    kwargs @@
    [app_id |-> GoodAppId,
     workplace_id |-> GoodWorkplaceId,
     requesting_user_email_address |-> GoodEmail,
     section_index |-> 0,
     field_index |-> 0,
     field_type |-> field_type,
     label |-> <<"L">>]

\* A base call for each kind of field type, the selectors and the
\* calculation with and without what their type requires
AddBaseCalls ==
    {AddBaseCall(t, EmptyDict) :
        t \in {"singleLineText", "singleSelector", "multiSelector",
               "dropDown", "file", "calculationsAndLogic", "bogus"}}
    \cup {AddBaseCall(t, "options" :> o) :
            t \in {"singleSelector", "multiSelector", "dropDown"},
            o \in {<<>>, <<"x">>}}
    \cup {AddBaseCall("calculationsAndLogic", "formula" :> f) :
            f \in {<<>>, <<" ">>, <<"f">>}}

AddCalls ==
    {v @@ base : base \in AddBaseCalls,
                 v \in Varied((AddRequired \ {"field_type"}) \cup AddOptional,
                              MaxVaried)}

UpdateBaseCall(kwargs) ==
    kwargs @@
    [app_id |-> GoodAppId,
     workplace_id |-> GoodWorkplaceId,
     requesting_user_email_address |-> GoodEmail,
     field_name |-> <<"f">>]

\* Nothing to update, and every attribute updated
UpdateBaseCalls ==
    {UpdateBaseCall(EmptyDict),
     UpdateBaseCall(
        [label |-> <<"L">>, description |-> <<"d">>, required |-> TRUE,
         block_width_percentage_desktop |-> 50,
         block_width_percentage_mobile |-> 50,
         display_condition |-> <<"c">>, retain_values |-> TRUE,
         is_editable |-> TRUE, editability_condition |-> <<"e">>,
         validation |-> "email", default_value |-> <<"v">>,
         options |-> <<"x">>, style |-> "Chips", number_of_cols |-> 2,
         allowed_file_types |-> <<"videos">>, max_file_allowed |-> 5,
         image_quality |-> "high", image_text |-> <<"t">>,
         file_name_prefix |-> <<"p">>, formula |-> <<"f">>,
         hidden |-> TRUE])}

UpdateCalls ==
    {v @@ base : base \in UpdateBaseCalls,
                 v \in Varied({"app_id", "workplace_id",
                               "requesting_user_email_address", "field_name"}
                              \cup UpdateOptional, MaxVaried)}

\* The size of a document: its sections and their fields, counted together
MaxDocSize == 3

\* Field dicts as the tool receives them: each kind of field type, the
\* selectors with and without options, and dicts with a key missing
FieldDicts ==
    {[fieldType |-> "singleLineText", label |-> <<"L">>],
     [fieldType |-> "singleLineText", label |-> <<"L">>, required |-> TRUE],
     [fieldType |-> "singleLineText", label |-> <<" ">>],
     [fieldType |-> "singleSelector", label |-> <<"L">>],
     [fieldType |-> "singleSelector", label |-> <<"L">>, options |-> <<>>],
     [fieldType |-> "singleSelector", label |-> <<"L">>, options |-> <<"x">>],
     [fieldType |-> "multiSelector", label |-> <<"L">>],
     [fieldType |-> "dropDown", label |-> <<"L">>, options |-> <<>>],
     [fieldType |-> "dropDown", label |-> <<"L">>, options |-> <<"x">>],
     [fieldType |-> "calculationsAndLogic", label |-> <<"L">>],
     [fieldType |-> "calculationsAndLogic", label |-> <<"L">>,
      formula |-> <<"f">>],
     [label |-> <<"L">>],
     [fieldType |-> "singleLineText"]}

\* Section dicts with n fields
SectionDicts(n) ==
    LET lists == [1..n -> FieldDicts]
    IN  {[sectionName |-> name, fields |-> fs] :
            name \in {<<"S">>, <<>>}, fs \in lists}
        \cup {[fields |-> fs] : fs \in lists}
        \cup (IF n = 0 THEN {[sectionName |-> <<"S">>]} ELSE {})

\* The documents of size n or less
RECURSIVE DictDocs(_)
DictDocs(n) ==
    {<<>>} \cup
    UNION {{<<section>> \o rest : section \in SectionDicts(w - 1),
                                  rest \in DictDocs(n - w)} : w \in 1..n}

\* The app name and the email of a call: both good, or one of them not
NamesAndEmails ==
    {<<<<"A", "p", "p">>, GoodEmail>>}
    \cup {<<n, GoodEmail>> : n \in {<<>>, <<" ">>, <<" ", "A", "p", " ">>,
                                    <<" ", "A", "p", "p", " ">>}}
    \cup {<<<<"A", "p", "p">>, m>> :
            m \in FieldChoices.requesting_user_email_address}

\* The documents of Section objects: those of the dicts that have every key
ObjectDocs ==
    {[i \in 1..Len(d) |->
        Section(d[i].sectionName,
                [j \in 1..Len(d[i].fields) |-> Field(d[i].fields[j])])] :
        d \in {x \in DictDocs(MaxDocSize) :
                 \A i \in 1..Len(x) :
                    /\ DOMAIN x[i] = {"sectionName", "fields"}
                    /\ \A j \in 1..Len(x[i].fields) :
                          {"fieldType", "label"} \subseteq DOMAIN x[i].fields[j]}}

Call_create_app ==
    /\ phase = "idle"
    /\ \E ne \in NamesAndEmails : \E d \in ObjectDocs : \E reply \in
              Answers(create_app(env, ne[1], ne[2], d, AnyReply)) :
          Complete("create_app", "tools",
                   [app_name |-> ne[1],
                    requesting_user_email_address |-> ne[2],
                    sections |-> d],
                   create_app(env, ne[1], ne[2], d, reply))

Call_create_clappia_app ==
    /\ phase = "idle"
    /\ \E ne \in NamesAndEmails : \E d \in DictDocs(MaxDocSize) :
       \E reply \in
              Answers(create_clappia_app(env, ne[1], ne[2], d, AnyReply)) :
          Complete("create_clappia_app", "facade",
                   [app_name |-> ne[1],
                    requesting_user_email_address |-> ne[2],
                    sections |-> d],
                   create_clappia_app(env, ne[1], ne[2], d, reply))

Call_add_field_to_app ==
    /\ phase = "idle"
    /\ \E a \in AddCalls : \E reply \in
              Answers(add_field_to_app(env, a, AnyReply)) :
          Complete("add_field_to_app", "tools", a,
                   add_field_to_app(env, a, reply))

Call_update_field_in_app ==
    /\ phase = "idle"
    /\ \E a \in UpdateCalls : \E reply \in
              Answers(update_field_in_app(env, a, AnyReply)) :
          Complete("update_field_in_app", "tools", a,
                   update_field_in_app(env, a, reply))

InitFields ==
    /\ phase = "idle"
    /\ env \in Environments
    /\ call = NoCall
    /\ outcome = NoOutcome
    /\ requests = <<>>
    /\ delegated = <<>>

NextFields ==
    \/ Call_add_field_to_app
    \/ Call_update_field_in_app
    \/ Call_create_app
    \/ Call_create_clappia_app
    \/ Return

SpecFields == InitFields /\ [][NextFields]_vars

(***************************************************************************)
(* Invocations of the tools                                                *)
(***************************************************************************)
ToolEmails ==
    {<<>>, <<" ">>, <<"a", "@", "b">>, GoodEmail, <<" ">> \o GoodEmail,
     GoodEmail \o <<" ">>, GoodEmail \o <<"\n">>}

ToolAppIds == {GoodAppId, <<"a", "b", "c">>, <<>>, <<" ", "A", "1">>}

FiltersOf(conditions) ==
    [queries |-> <<[queries |-> <<[conditions |-> conditions]>>]>>]

ToolFilters ==
    {EmptyDict,
     [queries |-> <<>>],
     FiltersOf(<<Condition("EQ", "CUSTOM", <<"k">>, <<"v">>)>>),
     FiltersOf(<<Condition("EMPTY", "STANDARD",
                           <<"$", "s", "t", "a", "t", "e">>, <<>>)>>),
     FiltersOf(<<Condition("LIKE", "CUSTOM", <<"k">>, <<"v">>)>>)}

PageSizes == {-1, 0, 1, 1000, 1001}

SubmissionsCalls ==
    {kwargs @@ [app_id |-> app_id, requesting_user_email_address |-> email] :
        app_id \in ToolAppIds, email \in ToolEmails,
        kwargs \in {EmptyDict} \cup {"page_size" :> n : n \in PageSizes}
                   \cup {"filters" :> f : f \in ToolFilters}}

AggregationCalls ==
    {kwargs @@ [app_id |-> app_id, requesting_user_email_address |-> email] :
        app_id \in ToolAppIds, email \in ToolEmails,
        kwargs \in {EmptyDict, "dimensions" :> <<"d">>,
                    "aggregation_dimensions" :> <<"count">>,
                    "filters" :> FiltersOf(<<>>)}
                   \cup {[dimensions |-> <<"d">>, page_size |-> n] :
                            n \in PageSizes}
                   \cup {[dimensions |-> <<"d">>, filters |-> f] :
                            f \in ToolFilters}}

DefinitionCalls ==
    {kwargs @@ [app_id |-> app_id, requesting_user_email_address |-> email] :
        app_id \in ToolAppIds, email \in ToolEmails,
        kwargs \in {EmptyDict, "language" :> "xx", "strip_html" :> FALSE}}

SubmissionCalls(others) ==
    {kwargs @@ [app_id |-> app_id, requesting_user_email_address |-> email] :
        app_id \in ToolAppIds, email \in ToolEmails, kwargs \in others}

AddToolCalls ==
    {v @@ [requesting_user_email_address |-> email] @@ base :
        email \in ToolEmails,
        base \in {Restrict(AddBaseCall(t, EmptyDict),
                           AddRequired \ {"workplace_id"}) :
                     t \in {"singleLineText", "singleSelector",
                            "calculationsAndLogic"}},
        v \in Varied({"app_id", "label"} \cup AddOptional, MaxVaried)}

UpdateToolCalls ==
    {v @@ [requesting_user_email_address |-> email] @@ base :
        email \in ToolEmails,
        base \in {[app_id |-> GoodAppId, field_name |-> <<"f">>]},
        v \in Varied({"app_id", "field_name"} \cup UpdateOptional, MaxVaried)}

Call_get_clappia_submissions ==
    /\ phase = "idle"
    /\ \E a \in SubmissionsCalls : \E reply \in
              Answers(get_clappia_submissions(env, a, AnyReply)) :
          Complete("get_clappia_submissions", "facade", a,
                   get_clappia_submissions(env, a, reply))

Call_get_clappia_submissions_aggregation ==
    /\ phase = "idle"
    /\ \E a \in AggregationCalls : \E reply \in
              Answers(get_clappia_submissions_aggregation(env, a, AnyReply)) :
          Complete("get_clappia_submissions_aggregation", "facade", a,
                   get_clappia_submissions_aggregation(env, a, reply))

Call_get_clappia_app_definition ==
    /\ phase = "idle"
    /\ \E a \in DefinitionCalls : \E result \in ClientResults :
          Complete("get_clappia_app_definition", "facade", a,
                   get_clappia_app_definition(a, result))

Call_create_clappia_app_submission ==
    /\ phase = "idle"
    /\ \E a \in SubmissionCalls({[data |-> d] : d \in {EmptyDict, "f" :> "v"}}) :
       \E result \in ClientResults :
          Complete("create_clappia_app_submission", "facade", a,
                   create_clappia_app_submission(a, result))

Call_edit_clappia_submission ==
    /\ phase = "idle"
    /\ \E a \in SubmissionCalls({[submission_id |-> i, data |-> "f" :> "v"] :
                                    i \in {<<>>, <<"S", "1">>}}) :
       \E result \in ClientResults :
          Complete("edit_clappia_submission", "facade", a,
                   edit_clappia_submission(a, result))

Call_update_clappia_submission_status ==
    /\ phase = "idle"
    /\ \E a \in SubmissionCalls(
                   {c @@ [submission_id |-> <<"S", "1">>, status_name |-> n] :
                       n \in {<<>>, <<"O", "k">>},
                       c \in {EmptyDict, "comments" :> <<"c">>}}) :
       \E result \in ClientResults :
          Complete("update_clappia_submission_status", "facade", a,
                   update_clappia_submission_status(a, result))

Call_update_clappia_submission_owners ==
    /\ phase = "idle"
    /\ \E a \in SubmissionCalls(
                   {[submission_id |-> <<"S", "1">>, email_ids |-> ids] :
                       ids \in {<<>>, <<GoodEmail>>}}) :
       \E result \in ClientResults :
          Complete("update_clappia_submission_owners", "facade", a,
                   update_clappia_submission_owners(a, result))

Call_add_field_to_clappia_app ==
    /\ phase = "idle"
    /\ \E a \in AddToolCalls : \E reply \in
              Answers(add_field_to_clappia_app(env, a, AnyReply)) :
          Complete("add_field_to_clappia_app", "facade", a,
                   add_field_to_clappia_app(env, a, reply))

Call_update_field_in_clappia_app ==
    /\ phase = "idle"
    /\ \E a \in UpdateToolCalls : \E reply \in
              Answers(update_field_in_clappia_app(env, a, AnyReply)) :
          Complete("update_field_in_clappia_app", "facade", a,
                   update_field_in_clappia_app(env, a, reply))

\* The functions of tools/ that the tools do not reach, called directly
Call_get_app_submissions_aggregation ==
    /\ phase = "idle"
    /\ \E a \in AggregationCalls : \E w \in {GoodWorkplaceId, <<"w">>, <<" ">>} :
       \E reply \in
              Answers(get_app_submissions_aggregation( env, ("workplace_id" :> w) @@ a, AnyReply)) :
          Complete("get_app_submissions_aggregation", "tools",
                   ("workplace_id" :> w) @@ a,
                   get_app_submissions_aggregation(
                       env, ("workplace_id" :> w) @@ a, reply))

Call_get_app_definition ==
    /\ phase = "idle"
    /\ \E a \in DefinitionCalls : \E w \in {GoodWorkplaceId, <<"w">>, <<" ">>} :
       \E reply \in
              Answers(get_app_definition(env, ("workplace_id" :> w) @@ a, AnyReply)) :
          Complete("get_app_definition", "tools",
                   ("workplace_id" :> w) @@ a,
                   get_app_definition(env, ("workplace_id" :> w) @@ a, reply))

Init ==
    /\ phase = "idle"
    /\ env \in Environments
    /\ call = NoCall
    /\ outcome = NoOutcome
    /\ requests = <<>>
    /\ delegated = <<>>

Next ==
    \/ Call_get_clappia_submissions
    \/ Call_get_clappia_submissions_aggregation
    \/ Call_get_clappia_app_definition
    \/ Call_create_clappia_app_submission
    \/ Call_edit_clappia_submission
    \/ Call_update_clappia_submission_status
    \/ Call_update_clappia_submission_owners
    \/ Call_create_clappia_app
    \/ Call_add_field_to_clappia_app
    \/ Call_update_field_in_clappia_app
    \/ Call_get_app_submissions_aggregation
    \/ Call_get_app_definition
    \/ Return

Spec == Init /\ [][Next]_vars

(***************************************************************************)
(* The _handle_response of every client applied to responses               *)
(***************************************************************************)
Statuses == {200, 201, 400, 401, 403, 404, 500}

ExpectedMembers ==
    {"fieldName", "appId", "appUrl", "submissions", "pageIds", "sectionIds",
     "fieldDefinitions", "metadata"}

\* The bodies: text that is not JSON, and the JSON values
Bodies ==
    {[json |-> None, text |-> "<html>"],
     [json |-> JsonDict(("fieldName" :> "f1") @@ ("appId" :> "NEW1")
                            @@ ("appUrl" :> "https://app/NEW1")
                            @@ ("submissions" :> <<"s1", "s2">>),
                        "{...}"),
      text |-> "{...}"],
     [json |-> JsonDict(EmptyDict, "{}"), text |-> "{}"],
     [json |-> JsonValue("dict", EmptyDict, ExpectedMembers, "{...: null}"),
      text |-> "{...: null}"],
     [json |-> JsonValue("dict", EmptyDict, {"metadata"}, "{metadata: null}"),
      text |-> "{metadata: null}"],
     [json |-> JsonList("[]"), text |-> "[]"],
     [json |-> JsonValue("str", EmptyDict, {}, "\"ok\""), text |-> "\"ok\""],
     [json |-> JsonValue("int", EmptyDict, {}, "1"), text |-> "1"],
     [json |-> JsonValue("NoneType", EmptyDict, {}, "null"), text |-> "null"]}

Responses == {Response(s, b.json, b.text) : s \in Statuses, b \in Bodies}

HandleResponse(client, res) ==
    /\ phase = "idle"
    /\ \E response \in Responses :
          Complete(client, "classifier", response,
                   Result(res[response], <<>>, <<>>))

HandleResponse_add_field ==
    HandleResponse("ClappiaAddFieldClient",
                   [r \in Responses |-> Returned(AddHandleResponse(r))])

HandleResponse_update_field ==
    HandleResponse("ClappiaUpdateFieldClient",
                   [r \in Responses |-> Returned(UpdateHandleResponse(r))])

HandleResponse_create_app ==
    HandleResponse("ClappiaCreateAppClient",
                   [r \in Responses |-> CreateHandleResponse(r)])

HandleResponse_get_submissions ==
    HandleResponse("ClappiaAPIClient",
                   [r \in Responses |-> SubmissionsHandleResponse(r)])

HandleResponse_get_submissions_aggregation ==
    HandleResponse("ClappiaAggregationAPIClient",
                   [r \in Responses |-> Returned(AggregationHandleResponse(r))])

HandleResponse_get_definition ==
    HandleResponse("ClappiaAppDefinitionClient",
                   [r \in Responses |-> DefinitionHandleResponse(r)])

HandleResponse_create_submission ==
    HandleResponse("ClappiaSubmissionClient",
                   [r \in Responses |->
                       Returned(CreateSubmissionHandleResponse(r))])

HandleResponse_edit_submission ==
    HandleResponse("ClappiaEditSubmissionClient",
                   [r \in Responses |-> Returned(EditSubmissionHandleResponse(r))])

HandleResponse_update_submission_status ==
    HandleResponse("ClappiaUpdateStatusClient",
                   [r \in Responses |-> Returned(UpdateStatusHandleResponse(r))])

HandleResponse_update_submission_owners ==
    HandleResponse("ClappiaUpdateOwnersClient",
                   [r \in Responses |-> Returned(UpdateOwnersHandleResponse(r))])

InitResponses ==
    /\ phase = "idle"
    /\ env = ConfiguredEnv
    /\ call = NoCall
    /\ outcome = NoOutcome
    /\ requests = <<>>
    /\ delegated = <<>>

NextResponses ==
    \/ HandleResponse_add_field
    \/ HandleResponse_update_field
    \/ HandleResponse_create_app
    \/ HandleResponse_get_submissions
    \/ HandleResponse_get_submissions_aggregation
    \/ HandleResponse_get_definition
    \/ HandleResponse_create_submission
    \/ HandleResponse_edit_submission
    \/ HandleResponse_update_submission_status
    \/ HandleResponse_update_submission_owners
    \/ Return

SpecResponses == InitResponses /\ [][NextResponses]_vars

(***************************************************************************)
(* The ten operations of tools/ on calls that break several rules at once  *)
(***************************************************************************)
GoodDoc == <<Section(<<"S">>, <<Field([fieldType |-> "singleLineText", label |-> <<"L">>])>>)>>

\* Every argument is well formed or ill formed, independently of the others
OperationCalls ==
    [add_field_to_app |->
        {o @@ [app_id |-> app_id, workplace_id |-> workplace_id,
               requesting_user_email_address |-> email,
               section_index |-> section_index, field_index |-> field_index,
               field_type |-> field_type, label |-> label] :
            app_id \in {GoodAppId, <<"a">>},
            workplace_id \in {GoodWorkplaceId, <<>>},
            email \in {GoodEmail, <<"x">>},
            section_index \in {0, -1}, field_index \in {0, -1},
            field_type \in {"singleLineText", "bogus", "singleSelector"},
            label \in {<<"L">>, <<" ">>},
            o \in {EmptyDict, "options" :> <<"x">>}},
     update_field_in_app |->
        {o @@ q @@ [app_id |-> app_id, workplace_id |-> workplace_id,
                    requesting_user_email_address |-> email,
                    field_name |-> field_name] :
            app_id \in {GoodAppId, <<"a">>},
            workplace_id \in {GoodWorkplaceId, <<>>},
            email \in {GoodEmail, <<"x">>},
            field_name \in {<<"f">>, <<" ">>},
            o \in {EmptyDict, "validation" :> "bogus", "style" :> "bogus"},
            q \in {EmptyDict, "image_quality" :> "bogus",
                   "allowed_file_types" :> <<"bogus">>,
                   "max_file_allowed" :> 11}},
     create_app |->
        {[app_name |-> app_name, requesting_user_email_address |-> email,
          sections |-> sections] :
            app_name \in {<<"A", "p", "p">>, <<"A">>},
            email \in {GoodEmail, <<"x">>},
            sections \in {GoodDoc, <<>>}},
     get_app_submissions |->
        {o @@ [app_id |-> app_id, requesting_user_email_address |-> email,
               page_size |-> page_size] :
            app_id \in {GoodAppId, <<" ">>},
            email \in {GoodEmail, <<>>, <<"x">>},
            page_size \in {10, 0, 1001},
            o \in {EmptyDict, "filters" :> [queries |-> <<>>],
                   "filters" :> FiltersOf(<<Condition("EQ", "CUSTOM",
                                                      <<"k">>, <<"v">>)>>)}},
     get_app_submissions_aggregation |->
        {o @@ [workplace_id |-> workplace_id, app_id |-> app_id] :
            workplace_id \in {GoodWorkplaceId, <<" ">>},
            app_id \in {GoodAppId, <<>>},
            o \in {EmptyDict, "dimensions" :> <<"d">>}},
     get_app_definition |->
        {[app_id |-> app_id, workplace_id |-> workplace_id,
          requesting_user_email_address |-> GoodEmail,
          language |-> language] :
            app_id \in {GoodAppId, <<"a">>},
            workplace_id \in {GoodWorkplaceId, <<>>},
            language \in {"en", "xx"}},
     create_app_submission |->
        {[app_id |-> app_id, workplace_id |-> workplace_id, data |-> data,
          email |-> email] :
            app_id \in {GoodAppId, <<"a">>},
            workplace_id \in {GoodWorkplaceId, <<>>},
            data \in {"f" :> "v", EmptyDict},
            email \in {GoodEmail, <<"x">>}},
     edit_app_submission |->
        {[app_id |-> app_id, submission_id |-> submission_id, data |-> data,
          email |-> email] :
            app_id \in {GoodAppId, <<"a">>},
            submission_id \in {<<"S", "1">>, <<" ">>},
            data \in {"f" :> "v", EmptyDict},
            email \in {GoodEmail, <<"x">>}},
     update_app_submission_status |->
        {o @@ [app_id |-> app_id, submission_id |-> submission_id,
               status_name |-> status_name, email |-> email] :
            app_id \in {GoodAppId, <<"a">>},
            submission_id \in {<<"S", "1">>, <<" ">>},
            status_name \in {<<"O", "k">>, <<" ">>},
            email \in {GoodEmail, <<"x">>},
            o \in {EmptyDict, "comments" :> <<" ", "c">>,
                   "comments" :> <<" ">>, "comments" :> <<>>}},
     update_app_submission_owners |->
        {[app_id |-> app_id, workplace_id |-> workplace_id,
          submission_id |-> submission_id, email_ids |-> email_ids,
          email |-> email] :
            app_id \in {GoodAppId, <<"a">>},
            workplace_id \in {GoodWorkplaceId, <<>>},
            submission_id \in {<<"S", "1">>, <<" ">>},
            email_ids \in {<<GoodEmail>>, <<>>, <<GoodEmail, <<" ">>>>,
                           <<GoodEmail \o <<" ">>, <<"x">>>>},
            email \in {GoodEmail, <<"x">>}}]

\* The module-level function of the name, called with the arguments a
Operation(tool, e, a, reply) ==
    CASE tool = "add_field_to_app" -> add_field_to_app(e, a, reply)
      [] tool = "update_field_in_app" -> update_field_in_app(e, a, reply)
      [] tool = "create_app" ->
           create_app(e, a.app_name, a.requesting_user_email_address,
                      a.sections, reply)
      [] tool = "get_app_submissions" ->
           get_app_submissions(e, a.app_id, a.requesting_user_email_address,
                               a.page_size, GetOpt(a, "filters"), reply)
      [] tool = "get_app_submissions_aggregation" ->
           get_app_submissions_aggregation(e, a, reply)
      [] tool = "get_app_definition" -> get_app_definition(e, a, reply)
      [] tool = "create_app_submission" -> create_app_submission(e, a, reply)
      [] tool = "edit_app_submission" -> edit_app_submission(e, a, reply)
      [] tool = "update_app_submission_status" ->
           update_app_submission_status(e, a, reply)
      [] tool = "update_app_submission_owners" ->
           update_app_submission_owners(e, a, reply)

Operate(tool) ==
    /\ phase = "idle"
    /\ \E a \in OperationCalls[tool] :
       \E reply \in Answers(Operation(tool, env, a, AnyReply)) :
          Complete(tool, "operation", a, Operation(tool, env, a, reply))

Operate_add_field_to_app == Operate("add_field_to_app")
Operate_update_field_in_app == Operate("update_field_in_app")
Operate_create_app == Operate("create_app")
Operate_get_app_submissions == Operate("get_app_submissions")
Operate_get_app_submissions_aggregation == Operate("get_app_submissions_aggregation")
Operate_get_app_definition == Operate("get_app_definition")
Operate_create_app_submission == Operate("create_app_submission")
Operate_edit_app_submission == Operate("edit_app_submission")
Operate_update_app_submission_status == Operate("update_app_submission_status")
Operate_update_app_submission_owners == Operate("update_app_submission_owners")

NextOperations ==
    \/ Operate_add_field_to_app
    \/ Operate_update_field_in_app
    \/ Operate_create_app
    \/ Operate_get_app_submissions
    \/ Operate_get_app_submissions_aggregation
    \/ Operate_get_app_definition
    \/ Operate_create_app_submission
    \/ Operate_edit_app_submission
    \/ Operate_update_app_submission_status
    \/ Operate_update_app_submission_owners
    \/ Return

SpecOperations == Init /\ [][NextOperations]_vars

\* C6: an identifier validator accepts a string exactly when the string is
\* non-empty after trimming and the trimmed string consists only of the
\* characters A-Z and 0-9.
C6_IdentifierAcceptedIffTrimmedUpperAlnum ==
    call.tool \in {"validate_app_id", "validate_workplace_id"} =>
        (outcome.value.ok <=>
            /\ Strip(call.args.s) # <<>>
            /\ \A i \in 1..Len(Strip(call.args.s)) :
                  Strip(call.args.s)[i] \in Upper \cup Digit)

\* C6 witness: validate_app_id has accepted the padded identifier " A0".
C6_Witness ==
    /\ call.tool = "validate_app_id"
    /\ call.args.s = <<" ", "A", "0">>
    /\ outcome.value.ok

(***************************************************************************)
(* The properties                                                          *)
(***************************************************************************)
\* The word is one of the segments of the message
Contains(msg, word) == \E i \in 1..Len(msg) : msg[i] = word

\* The invocation ended with an error string and without a request
Rejected ==
    /\ outcome.kind = "returned"
    /\ ~Contains(outcome.value, "successfully")
    /\ ~Contains(outcome.value, "Successfully")
    /\ requests = <<>>

\* s is non-empty once trimmed and the trimmed s is made of A-Z and 0-9
GoodIdentifier(s) ==
    \E i \in 1..Len(s) : \E j \in i..Len(s) :
        /\ AllIn(SubSeq(s, 1, i - 1), Whitespace)
        /\ AllIn(SubSeq(s, j + 1, Len(s)), Whitespace)
        /\ AllIn(SubSeq(s, i, j), Upper \cup Digit)

\* C1: each of the ten tools returns a string for every argument tuple and
\* never lets an exception reach its caller, the aggregation, add-field and
\* update-field tools included.
C1_EveryToolReturnsAString ==
    call.layer = "facade" => outcome.kind = "returned"

\* C2: a tool given a requester email that is empty, whitespace-only or,
\* once trimmed as the gate trims it, not an address returns an error string
\* before delegating anything and without a network call; the string depends
\* on the email alone, the same for every tool and every other argument.
C2_BadEmailRejectedBeforeDelegation ==
    LET email == call.args.requesting_user_email_address
    IN  (call.layer = "facade"
            /\ (Strip(email) = <<>> \/ ~MatchEmailPattern(Strip(email))))
        => /\ outcome =
                Returned(<<"Error: ",
                           IF Strip(email) = <<>>
                           THEN "Email address is required. Please provide a valid email address."
                           ELSE "Invalid email format. Please provide a valid email address.">>)
           /\ requests = <<>>
           /\ delegated = <<>>

\* C2 witness: update_field_in_clappia_app, given the email "a@b" and an
\* attribute to update, has returned the error of the gate.
C2_Witness ==
    /\ call.tool = "update_field_in_clappia_app"
    /\ call.args.requesting_user_email_address = <<"a", "@", "b">>
    /\ "required" \in DOMAIN call.args
    /\ outcome.kind = "returned"
    /\ outcome.value[1] = "Error: "
    /\ delegated = <<>>

\* The options of a field definition of the invocation: the tools take
\* dicts, tools/create_app.py takes Field objects
OptionsOf(field) ==
    IF call.layer = "facade" THEN GetOpt(field, "options") ELSE field.options

\* The field definitions of the document of a create invocation
DocumentFields ==
    UNION {{Get(call.args.sections[i], "fields", <<>>)[j] :
              j \in 1..Len(Get(call.args.sections[i], "fields", <<>>))} :
           i \in 1..Len(call.args.sections)}

SelectorTypes == {"singleSelector", "multiSelector", "dropDown"}

\* The invocation is a field-add whose field is a selector without options
AddsSelectorWithoutOptions ==
    /\ call.tool = "add_field_to_app"
    /\ call.args.field_type \in SelectorTypes
    /\ ("options" \in DOMAIN call.args => call.args.options = <<>>)

\* The invocation is an app creation with a selector without options
CreatesSelectorWithoutOptions ==
    /\ call.tool \in {"create_app", "create_clappia_app"}
    /\ \E f \in DocumentFields :
          /\ "fieldType" \in DOMAIN f
          /\ f.fieldType \in SelectorTypes
          /\ (IsNone(OptionsOf(f)) \/ Val(OptionsOf(f)) = <<>>)

\* Every argument of the field-add but the options is valid
AddOtherwiseValid ==
    /\ GoodIdentifier(call.args.app_id)
    /\ GoodIdentifier(call.args.workplace_id)
    /\ MatchEmailPattern(Strip(call.args.requesting_user_email_address))
    /\ Strip(call.args.label) # <<>>
    /\ call.args.section_index >= 0
    /\ call.args.field_index >= 0

\* The app name, the email and, but for the options of its selectors, the
\* document of the app creation are valid
CreateOtherwiseValid ==
    /\ Len(Strip(call.args.app_name)) >= 3
    /\ MatchEmailPattern(Strip(call.args.requesting_user_email_address))
    /\ \A i \in 1..Len(call.args.sections) :
          /\ DOMAIN call.args.sections[i] = {"sectionName", "fields"}
          /\ Strip(call.args.sections[i].sectionName) # <<>>
          /\ call.args.sections[i].fields # <<>>
    /\ \A f \in DocumentFields :
          /\ {"fieldType", "label"} \subseteq DOMAIN f
          /\ f.fieldType \in CREATE_VALID_FIELD_TYPES
          /\ Strip(f.label) # <<>>

\* C3 as stated: a selector field definition without options is rejected
\* whatever the other attributes, without a network call and with a string
\* that contains "options".
C3_SelectorWithoutOptionsNamesOptions ==
    (AddsSelectorWithoutOptions \/ CreatesSelectorWithoutOptions)
    => Rejected /\ Contains(outcome.value, "options")

\* C3 amended: add_field_to_app and app creation (create_app and the
\* create_clappia_app tool) reject a selector field definition without
\* options whatever the other attributes, with an error string and no
\* network call; the string contains "options" when everything else in the
\* call is valid, and is otherwise the error of an earlier check.
C3_SelectorWithoutOptionsRejected ==
    /\ AddsSelectorWithoutOptions
       => Rejected /\ (AddOtherwiseValid => Contains(outcome.value, "options"))
    /\ CreatesSelectorWithoutOptions
       => Rejected /\ (CreateOtherwiseValid => Contains(outcome.value, "options"))

\* C3 witness: add_field_to_app, given a dropDown without options and a
\* description, has returned the error that names the options.
C3_Witness ==
    /\ AddsSelectorWithoutOptions
    /\ AddOtherwiseValid
    /\ call.args.field_type = "dropDown"
    /\ "description" \in DOMAIN call.args
    /\ Contains(outcome.value, "options")
    /\ requests = <<>>

\* The formula is absent, empty or whitespace
NoFormula(args) == "formula" \in DOMAIN args => Strip(args.formula) = <<>>

\* C4: a calculationsAndLogic field definition whose formula is absent,
\* empty or whitespace is rejected by the field-add and by app creation,
\* and no network call is made.
C4_CalculationWithoutFormulaRejected ==
    /\ (call.tool = "add_field_to_app"
           /\ call.args.field_type = "calculationsAndLogic"
           /\ NoFormula(call.args))
       => Rejected
    /\ (call.tool \in {"create_app", "create_clappia_app"}
           /\ \E f \in DocumentFields :
                 /\ "fieldType" \in DOMAIN f
                 /\ f.fieldType = "calculationsAndLogic"
                 /\ NoFormula(f))
       => Rejected

\* C4 witness: add_field_to_app, given a calculationsAndLogic field with the
\* formula " " and every other argument valid, has returned the error of the
\* formula check.
C4_Witness ==
    /\ call.tool = "add_field_to_app"
    /\ call.args.field_type = "calculationsAndLogic"
    /\ "formula" \in DOMAIN call.args
    /\ call.args.formula = <<" ">>
    /\ outcome.value =
         <<"Error: Field validation failed - ",
           "Field type 'calculationsAndLogic' requires a formula">>
    /\ requests = <<>>

\* C5: a request is issued only if the app id, and the workplace id where
\* it is an argument, is non-empty once trimmed and made of A-Z and 0-9, and
\* the requester email is an address.
C5_RequestOnlyForValidArguments ==
    (call.tool \in {"get_clappia_submissions", "get_app_submissions_aggregation",
                    "get_app_definition"}
        /\ requests # <<>>)
    => /\ GoodIdentifier(call.args.app_id)
       /\ ("workplace_id" \in DOMAIN call.args
              => GoodIdentifier(call.args.workplace_id))
       /\ MatchEmailPattern(Strip(call.args.requesting_user_email_address))

\* C7: every email validator accepts the same set of strings, so that an
\* email the outer gate accepts, surrounding whitespace included, is never
\* rejected by the email validator of the operation it is passed to.
C7_InnerValidatorAcceptsWhatGateAccepts ==
    (call.tool = "get_clappia_submissions"
        /\ validate_required_params(
               Some(call.args.requesting_user_email_address)).ok
        /\ Strip(call.args.app_id) # <<>>)
    => outcome.value #
         <<"Error: requesting_user_email_address must be a valid email address">>

\* The body of the request of the invocation
Payload == requests[1].sent.body

BooleanAttributes == {"required", "retain_values", "is_editable", "hidden"}
IntegerAttributes ==
    {"block_width_percentage_desktop", "block_width_percentage_mobile",
     "number_of_cols", "max_file_allowed"}
EnumeratedAttributes == {"validation", "style", "image_quality"}

\* The value of the attribute is falsy in Python
Falsy(k, v) ==
    IF k \in BooleanAttributes THEN v = FALSE
    ELSE IF k \in IntegerAttributes THEN v = 0
    ELSE IF k \in EnumeratedAttributes THEN v = ""
    ELSE v = <<>>

\* C8: in the payload of a field update, the key of each of the 21 optional
\* attributes is present exactly when the caller supplied the attribute; a
\* supplied falsy value (False, 0, [], "") is there with that value.
C8_UpdateKeyPresentIffSupplied ==
    (call.tool = "update_field_in_app" /\ requests # <<>>)
    => \A k \in UpdateOptional :
          /\ UpstreamKey[k] \in DOMAIN Payload <=> k \in DOMAIN call.args
          /\ (k \in DOMAIN call.args /\ Falsy(k, call.args[k]))
             => Payload[UpstreamKey[k]] = call.args[k]

\* C8 witness: update_field_in_app, given options=[] alone, has sent a
\* payload with the options [] and without a key for required.
C8_Witness ==
    /\ call.tool = "update_field_in_app"
    /\ "options" \in DOMAIN call.args
    /\ call.args.options = <<>>
    /\ requests # <<>>
    /\ "options" \in DOMAIN Payload
    /\ Payload["options"] = <<>>
    /\ "required" \notin DOMAIN Payload

\* The attributes C9 names
C9_Attributes ==
    {"required", "block_width_percentage_desktop",
     "block_width_percentage_mobile", "retain_values", "is_editable",
     "validation", "description", "display_condition",
     "editability_condition", "default_value", "options", "hidden"}

\* C9 as stated: in the payload of a field add, the key of an optional
\* attribute is present exactly when the caller supplied the attribute.
C9_AddKeyPresentIffSupplied ==
    (call.tool = "add_field_to_app" /\ requests # <<>>)
    => \A k \in C9_Attributes :
          UpstreamKey[k] \in DOMAIN Payload <=> k \in DOMAIN call.args

\* C9 amended: the payload of a field add always has the keys required,
\* blockWidthPercentageDesktop, blockWidthPercentageMobile, retainValues,
\* isEditable and validation, with the supplied value or else the default
\* False, 100, 100, False, True, "none"; it has hidden exactly when the
\* caller supplied it; and it has description, displayCondition,
\* editabilityCondition, defaultValue and options exactly when the caller
\* supplied a non-empty value.
C9_AddKeysDefaultedOrOmitted ==
    (call.tool = "add_field_to_app" /\ requests # <<>>)
    => /\ \A k \in {"required", "block_width_percentage_desktop",
                    "block_width_percentage_mobile", "retain_values",
                    "is_editable", "validation"} :
             /\ UpstreamKey[k] \in DOMAIN Payload
             /\ Payload[UpstreamKey[k]] =
                  IF k \in DOMAIN call.args THEN call.args[k]
                  ELSE [required |-> FALSE,
                        block_width_percentage_desktop |-> 100,
                        block_width_percentage_mobile |-> 100,
                        retain_values |-> FALSE,
                        is_editable |-> TRUE,
                        validation |-> "none"][k]
       /\ "hidden" \in DOMAIN Payload <=> "hidden" \in DOMAIN call.args
       /\ \A k \in {"description", "display_condition",
                    "editability_condition", "default_value", "options"} :
             UpstreamKey[k] \in DOMAIN Payload
             <=> (k \in DOMAIN call.args /\ call.args[k] # <<>>)

\* C9 witness: add_field_to_app, given description="" and no value for
\* required, has sent a payload with required and without description.
C9_Witness ==
    /\ call.tool = "add_field_to_app"
    /\ "description" \in DOMAIN call.args
    /\ call.args.description = <<>>
    /\ "required" \notin DOMAIN call.args
    /\ requests # <<>>
    /\ "description" \notin DOMAIN Payload
    /\ Payload["required"] = FALSE

\* v is s without its leading and trailing whitespace
IsTrimOf(v, s) ==
    \E i \in 0..Len(s) : \E j \in 0..(Len(s) - i) :
        /\ v = SubSeq(s, i + 1, Len(s) - j)
        /\ AllIn(SubSeq(s, 1, i), Whitespace)
        /\ AllIn(SubSeq(s, Len(s) - j + 1, Len(s)), Whitespace)
        /\ v # <<>> => (v[1] \notin Whitespace /\ v[Len(v)] \notin Whitespace)

\* The invocation is a field add or a field update that sent its payload
SentFieldPayload ==
    /\ call.tool \in {"add_field_to_app", "update_field_in_app"}
    /\ requests # <<>>

\* The upstream key of every attribute of the two requests
AttributeKey ==
    UpstreamKey @@
    [app_id |-> "appId",
     workplace_id |-> "workplaceId",
     requesting_user_email_address |-> "requestingUserEmailAddress",
     field_name |-> "fieldName",
     section_index |-> "sectionIndex",
     field_index |-> "fieldIndex",
     field_type |-> "fieldType"]

\* The attributes that hold free text
FreeTextAttributes ==
    {"app_id", "workplace_id", "requesting_user_email_address", "field_name",
     "label", "description", "display_condition", "editability_condition",
     "default_value", "image_text", "file_name_prefix", "formula"}

\* The attributes the caller set whose key is in the payload
ReadBack == {k \in DOMAIN call.args : AttributeKey[k] \in DOMAIN Payload}

\* C10 as stated: reading back from the payload the key of each attribute
\* that was set yields the value of the request, unchanged.
C10_PayloadValuesUnchanged ==
    SentFieldPayload
    => \A k \in ReadBack : Payload[AttributeKey[k]] = call.args[k]

\* C10 amended: reading back from the payload of a field add or a field
\* update the key of an attribute that was set yields the value of the
\* request without its leading and trailing whitespace for the free-text
\* attributes (app id, workplace id, email, field name, label, description,
\* display condition, editability condition, default value, image text, file
\* name prefix, formula) and the value unchanged for the booleans, integers,
\* lists and enumerated strings.
C10_PayloadValuesTrimmedOrUnchanged ==
    SentFieldPayload
    => \A k \in ReadBack :
          IF k \in FreeTextAttributes
          THEN IsTrimOf(Payload[AttributeKey[k]], call.args[k])
          ELSE Payload[AttributeKey[k]] = call.args[k]

\* C10 witness: update_field_in_app, given the label " L ", has sent the
\* label "L".
C10_Witness ==
    /\ call.tool = "update_field_in_app"
    /\ "label" \in DOMAIN call.args
    /\ call.args.label = <<" ", "L", " ">>
    /\ requests # <<>>
    /\ Payload["label"] = <<"L">>

(***************************************************************************)
(* validate_sections and validate_filters applied to documents that break  *)
(* up to two rules in different places                                     *)
(***************************************************************************)
MaxSections == 2
MaxFields == 2
MaxGroups == 2
MaxQueries == 2
MaxConditions == 2

\* The places of a list of sections where a rule can be broken, and how
SectionFaults(S, F) ==
    {[i |-> i, j |-> 0, kind |-> kind] :
        i \in 1..S, kind \in {"blank_name", "no_fields"}}
    \cup {[i |-> i, j |-> j, kind |-> kind] :
             i \in 1..S, j \in 1..F,
             kind \in {"bad_type", "blank_label", "no_options"}}

FaultsAt(faults, i, j) == {p \in faults : p.i = i /\ p.j = j}
KindAt(faults, i, j) ==
    IF FaultsAt(faults, i, j) = {} THEN "good"
    ELSE (CHOOSE p \in FaultsAt(faults, i, j) : TRUE).kind

\* S sections of F fields each, every section and field with a name of its
\* own, valid but for the faults
SectionsWith(S, F, faults) ==
    [i \in 1..S |->
        Section(IF KindAt(faults, i, 0) = "blank_name" THEN <<" ">>
                ELSE <<"S", ToString(i)>>,
                IF KindAt(faults, i, 0) = "no_fields" THEN <<>>
                ELSE [j \in 1..F |->
                        Field([fieldType |->
                                  CASE KindAt(faults, i, j) = "bad_type" ->
                                         "checkbox" \o ToString(i)
                                    [] KindAt(faults, i, j) = "no_options" -> "dropDown"
                                    [] OTHER -> "singleLineText",
                               label |->
                                  IF KindAt(faults, i, j) = "blank_label" THEN <<" ">>
                                  ELSE <<"L", ToString(i), ToString(j)>>])])]

SectionDocuments ==
    {<<>>}
    \cup {SectionsWith(S, F, {p, r}) :
             <<S, F, p, r>> \in
                 {<<S, F, p, r>> \in (1..MaxSections) \X (1..MaxFields)
                                      \X SectionFaults(MaxSections, MaxFields)
                                      \X SectionFaults(MaxSections, MaxFields) :
                     {p, r} \subseteq SectionFaults(S, F)}}
    \cup {SectionsWith(S, F, {}) : S \in 1..MaxSections, F \in 1..MaxFields}

\* The places of a filter document where a rule can be broken, and how
FilterFaults(G, Q, C) ==
    {[i |-> i, j |-> 0, k |-> 0, kind |-> "no_queries"] : i \in 1..G}
    \cup {[i |-> i, j |-> j, k |-> 0, kind |-> kind] :
             i \in 1..G, j \in 1..Q,
             kind \in {"no_conditions", "empty_conditions", "bad_operator"}}
    \cup {[i |-> i, j |-> j, k |-> k, kind |-> kind] :
             i \in 1..G, j \in 1..Q, k \in 1..C,
             kind \in {"unknown_operator", "not_standard"}}

FilterFaultsAt(faults, i, j, k) ==
    {p \in faults : p.i = i /\ p.j = j /\ p.k = k}
FilterKindAt(faults, i, j, k) ==
    IF FilterFaultsAt(faults, i, j, k) = {} THEN "good"
    ELSE (CHOOSE p \in FilterFaultsAt(faults, i, j, k) : TRUE).kind

\* G query groups of Q queries of C conditions each, every condition with a
\* key of its own, valid but for the faults
FiltersWith(G, Q, C, faults) ==
    LET ConditionAt(i, j, k) ==
            Condition(IF FilterKindAt(faults, i, j, k) = "unknown_operator"
                      THEN "LIKE" \o ToString(i) \o ToString(j) \o ToString(k)
                      ELSE "EQ",
                      IF FilterKindAt(faults, i, j, k) = "not_standard"
                      THEN "STANDARD" ELSE "CUSTOM",
                      <<"k", ToString(i), ToString(j), ToString(k)>>,
                      <<"v">>)
        QueryAt(i, j) ==
            CASE FilterKindAt(faults, i, j, 0) = "no_conditions" -> EmptyDict
              [] FilterKindAt(faults, i, j, 0) = "empty_conditions" ->
                   [conditions |-> <<>>]
              [] FilterKindAt(faults, i, j, 0) = "bad_operator" ->
                   [conditions |-> [k \in 1..C |-> ConditionAt(i, j, k)],
                    operator |-> "XOR" \o ToString(i) \o ToString(j)]
              [] OTHER ->
                   [conditions |-> [k \in 1..C |-> ConditionAt(i, j, k)]]
    IN  [queries |->
            [i \in 1..G |->
                IF FilterKindAt(faults, i, 0, 0) = "no_queries" THEN EmptyDict
                ELSE [queries |-> [j \in 1..Q |-> QueryAt(i, j)]]]]

FilterDocuments ==
    {EmptyDict, [queries |-> <<>>]}
    \cup {FiltersWith(G, Q, C, {p, r}) :
             <<G, Q, C, p, r>> \in
                 {<<G, Q, C, p, r>> \in
                      (1..MaxGroups) \X (1..MaxQueries) \X (1..MaxConditions)
                      \X FilterFaults(MaxGroups, MaxQueries, MaxConditions)
                      \X FilterFaults(MaxGroups, MaxQueries, MaxConditions) :
                     {p, r} \subseteq FilterFaults(G, Q, C)}}
    \cup {FiltersWith(G, Q, C, {}) :
             G \in 1..MaxGroups, Q \in 1..MaxQueries, C \in 1..MaxConditions}

Check_validate_sections ==
    /\ phase = "idle"
    /\ \E sections \in SectionDocuments :
          Complete("validate_sections", "validator", [sections |-> sections],
                   Pure(validate_sections(sections)))

Check_validate_filters ==
    /\ phase = "idle"
    /\ \E filters \in FilterDocuments :
          Complete("validate_filters", "validator", [filters |-> filters],
                   Pure(validate_filters(filters)))

NextDocuments ==
    \/ Check_validate_sections
    \/ Check_validate_filters
    \/ Return

SpecDocuments == InitValidators /\ [][NextDocuments]_vars

(***************************************************************************)
(* The validators applied to values that are null or not strings           *)
(***************************************************************************)
\* A value as the caller's JSON gives it: a str, None or an int
PyStr(s) == [type |-> "str", str |-> s, truthy |-> s # <<>>]
PyNone == [type |-> "NoneType", str |-> <<>>, truthy |-> FALSE]
PyInt(n) == [type |-> "int", str |-> <<>>, truthy |-> n # 0]

\* validate_condition on a condition that has the four fields, with a key and
\* a value of any of these types: key.strip() and value.strip() raise
\* AttributeError on what is not a str
validate_condition_typed(condition) ==
    IF condition.operator \notin FilterOperator
    THEN Returned(Fail(<<"Invalid operator: ", condition.operator>>))
    ELSE IF condition.filterKeyType \notin FilterKeyType
    THEN Returned(Fail(<<"Invalid filterKeyType: ", condition.filterKeyType>>))
    ELSE IF condition.key.type # "str" THEN Raised("AttributeError")
    ELSE IF Strip(condition.key.str) = <<>>
    THEN Returned(Fail(<<"Key must be a non-empty string">>))
    ELSE IF /\ condition.filterKeyType = "STANDARD"
            /\ Text(condition.key.str) \notin STANDARD_FIELDS
    THEN Returned(Fail(<<"Standard filterKeyType used but key '",
                         Text(condition.key.str),
                         "' is not a standard field">>))
    ELSE IF condition.operator \in {"EMPTY", "NON_EMPTY"}
    THEN IF ~condition.value.truthy THEN Returned(Ok)
         ELSE IF condition.value.type # "str" THEN Raised("AttributeError")
         ELSE IF Strip(condition.value.str) # <<>>
         THEN Returned(Fail(<<"Operator ", condition.operator,
                              " should have empty value">>))
         ELSE Returned(Ok)
    ELSE IF condition.value.type # "str" THEN Raised("AttributeError")
    ELSE IF Strip(condition.value.str) = <<>>
    THEN Returned(Fail(<<"Operator ", condition.operator,
                         " requires a non-empty value">>))
    ELSE Returned(Ok)

\* validate_filters on filters of one query group of one query of one
\* condition: what validate_condition raises passes through
validate_filters_typed(filters) ==
    LET r == validate_condition_typed(
                 filters.queries[1].queries[1].conditions[1])
    IN  IF r.kind = "raised" THEN r
        ELSE IF ~r.value.ok THEN r
        ELSE Returned(Ok)

\* update_app_submission_status with a status name of any of these types:
\* status_name.strip() follows the three validators and precedes the try
update_app_submission_status_typed(e, a, reply) ==
    IF \/ ~validate_app_id(Some(a.app_id)).ok
       \/ ~validate_submission_id(Some(a.submission_id)).ok
       \/ ~validate_email(Some(a.email)).ok
    THEN update_app_submission_status(e, [a EXCEPT !.status_name = <<>>], reply)
    ELSE IF a.status_name.type # "str"
    THEN Result(Raised("AttributeError"), <<>>, <<>>)
    ELSE update_app_submission_status(
             e, [a EXCEPT !.status_name = a.status_name.str], reply)

TypedValues ==
    {PyNone, PyInt(0), PyInt(5), PyStr(<<>>), PyStr(<<" ">>), PyStr(<<"v">>),
     PyStr(<<"$", "s", "t", "a", "t", "e">>)}

TypedConditions ==
    {Condition(operator, filterKeyType, key, value) :
        operator \in {"EQ", "EMPTY", "NON_EMPTY", "LIKE"},
        filterKeyType \in FilterKeyType \cup {"OTHER"},
        key \in TypedValues, value \in TypedValues}

TypedStatusCalls ==
    {[app_id |-> app_id, submission_id |-> <<"S", "1">>, email |-> GoodEmail,
      status_name |-> status_name] :
        app_id \in {GoodAppId, <<" ">>},
        status_name \in {PyNone, PyStr(<<>>), PyStr(<<" ">>),
                         PyStr(<<"O", "k">>), PyStr(<<" ", "O", "k">>)}}

Check_validate_condition_typed ==
    /\ phase = "idle"
    /\ \E condition \in TypedConditions :
          Complete("validate_condition", "validator",
                   [condition |-> condition],
                   Result(validate_condition_typed(condition), <<>>, <<>>))

Check_validate_filters_typed ==
    /\ phase = "idle"
    /\ \E condition \in TypedConditions :
          Complete("validate_filters", "validator",
                   [filters |-> FiltersOf(<<condition>>)],
                   Result(validate_filters_typed(FiltersOf(<<condition>>)),
                          <<>>, <<>>))

Operate_update_app_submission_status_typed ==
    /\ phase = "idle"
    /\ \E a \in TypedStatusCalls :
       \E reply \in Answers(update_app_submission_status_typed(env, a, AnyReply)) :
          Complete("update_app_submission_status", "operation", a,
                   update_app_submission_status_typed(env, a, reply))

NextTyped ==
    \/ Check_validate_condition_typed
    \/ Check_validate_filters_typed
    \/ Operate_update_app_submission_status_typed
    \/ Return

SpecTyped == InitValidators /\ [][NextTyped]_vars

(***************************************************************************)
(* Two invocations of add_field_to_app, their steps interleaved.  In this  *)
(* specification phase, call, outcome, requests and delegated hold one     *)
(* value per invocation; call[i] is the frame of invocation i: its         *)
(* arguments, the client it made, the request it built.                    *)
(***************************************************************************)
Invocations == {1, 2}

\* A client that does not read the API key
ClappiaAddFieldClient_init_without_key(e) ==
    [DEV_API_KEY |-> None,
     CLAPPIA_EXTERNAL_API_BASE_URL |-> e.CLAPPIA_EXTERNAL_API_BASE_URL]

\* ClappiaAddFieldClient.__init__: the client reads the environment when it is
\* made
ClappiaAddFieldClient_init(e) ==
    [DEV_API_KEY |-> e.DEV_API_KEY,
     CLAPPIA_EXTERNAL_API_BASE_URL |-> e.CLAPPIA_EXTERNAL_API_BASE_URL]

\* The validators of add_field in their order and then _validate_environment
\* on the fields of the client: the error string, or nothing
add_field_validate(client, a) ==
    LET app == validate_app_id(Some(a.app_id))
        workplace == validate_workplace_id(Some(a.workplace_id))
        email == validate_email(Some(a.requesting_user_email_address))
        type == validate_field_type(a.field_type)
        label == validate_label(a.label)
        indices == validate_indices(a.section_index, a.field_index)
        specific == validate_field_specific_options(
                        a.field_type, GetOpt(a, "options"), GetOpt(a, "formula"))
        environment == validate_environment_dev(client)
    IN  CASE ~app.ok -> Some(<<"Error: Invalid app_id - ">> \o app.msg)
          [] app.ok /\ ~workplace.ok ->
               Some(<<"Error: Invalid workplace_id - ">> \o workplace.msg)
          [] app.ok /\ workplace.ok /\ ~email.ok ->
               Some(<<"Error: Invalid email - ">> \o email.msg)
          [] app.ok /\ workplace.ok /\ email.ok /\ ~type.ok ->
               Some(<<"Error: Invalid field_type - ">> \o type.msg)
          [] app.ok /\ workplace.ok /\ email.ok /\ type.ok /\ ~label.ok ->
               Some(<<"Error: Invalid label - ">> \o label.msg)
          [] app.ok /\ workplace.ok /\ email.ok /\ type.ok /\ label.ok
                /\ ~indices.ok ->
               Some(<<"Error: Invalid indices - ">> \o indices.msg)
          [] app.ok /\ workplace.ok /\ email.ok /\ type.ok /\ label.ok
                /\ indices.ok /\ ~specific.ok ->
               Some(<<"Error: Field validation failed - ">> \o specific.msg)
          [] app.ok /\ workplace.ok /\ email.ok /\ type.ok /\ label.ok
                /\ indices.ok /\ specific.ok /\ ~environment.ok ->
               Some(<<"Error: ">> \o environment.msg)
          [] OTHER -> None

\* url, headers and payload as add_field puts them together
add_field_build(client, a) ==
    HttpRequest("POST",
                <<Val(client.CLAPPIA_EXTERNAL_API_BASE_URL),
                  "/appdefinitionv2/addField">>,
                FieldHeaders(client, a.workplace_id),
                AddBuildPayload(AddFieldRequest(a)))

\* _handle_response on a response, the except clause on an exception
add_field_classify(reply) ==
    IF reply.kind = "exception" THEN TransportError(reply.exc)
    ELSE AddHandleResponse(reply)

InterleavedCalls ==
    {AddBaseCall(t, EmptyDict) : t \in {"singleLineText", "singleSelector", "bogus"}}
    \cup {AddBaseCall("dropDown", "options" :> <<"x">>),
          [AddBaseCall("singleLineText", EmptyDict) EXCEPT !.app_id = <<"a">>],
          [AddBaseCall("file", EmptyDict) EXCEPT !.label = <<" ">>]}

\* client = ClappiaAddFieldClient(); client.add_field(...) is entered
Start(i) ==
    /\ phase[i] = "idle"
    /\ \E a \in InterleavedCalls :
          call' = [call EXCEPT ![i] =
                      [tool |-> "add_field_to_app", layer |-> "interleaved",
                       args |-> a, client |-> ClappiaAddFieldClient_init(env),
                       request |-> None]]
    /\ phase' = [phase EXCEPT ![i] = "made"]
    /\ UNCHANGED <<env, outcome, requests, delegated>>

Validate(i) ==
    /\ phase[i] = "made"
    /\ LET error == add_field_validate(call[i].client, call[i].args)
       IN  IF IsNone(error)
           THEN /\ phase' = [phase EXCEPT ![i] = "validated"]
                /\ UNCHANGED outcome
           ELSE /\ phase' = [phase EXCEPT ![i] = "done"]
                /\ outcome' = [outcome EXCEPT ![i] = Returned(Val(error))]
    /\ UNCHANGED <<env, call, requests, delegated>>

Build(i) ==
    /\ phase[i] = "validated"
    /\ call' = [call EXCEPT ![i].request =
                   Some(add_field_build(call[i].client, call[i].args))]
    /\ phase' = [phase EXCEPT ![i] = "built"]
    /\ UNCHANGED <<env, outcome, requests, delegated>>

\* requests.post: the service answers, or the transport fails
Post(i) ==
    /\ phase[i] = "built"
    /\ \E reply \in Replies :
          requests' = [requests EXCEPT ![i] =
                          <<[sent |-> Val(call[i].request), reply |-> reply]>>]
    /\ phase' = [phase EXCEPT ![i] = "sent"]
    /\ UNCHANGED <<env, call, outcome, delegated>>

Classify(i) ==
    /\ phase[i] = "sent"
    /\ outcome' = [outcome EXCEPT ![i] =
                      Returned(add_field_classify(requests[i][1].reply))]
    /\ phase' = [phase EXCEPT ![i] = "done"]
    /\ UNCHANGED <<env, call, requests, delegated>>

\* The caller has its string; the frame is gone
Finish(i) ==
    /\ phase[i] = "done"
    /\ phase' = [phase EXCEPT ![i] = "idle"]
    /\ call' = [call EXCEPT ![i] = NoCall]
    /\ outcome' = [outcome EXCEPT ![i] = NoOutcome]
    /\ requests' = [requests EXCEPT ![i] = <<>>]
    /\ UNCHANGED <<env, delegated>>

InitInterleaved ==
    /\ phase = [i \in Invocations |-> "idle"]
    /\ env \in Environments
    /\ call = [i \in Invocations |-> NoCall]
    /\ outcome = [i \in Invocations |-> NoOutcome]
    /\ requests = [i \in Invocations |-> <<>>]
    /\ delegated = [i \in Invocations |-> <<>>]

NextInterleaved ==
    \E i \in Invocations :
        \/ Start(i)
        \/ Validate(i)
        \/ Build(i)
        \/ Post(i)
        \/ Classify(i)
        \/ Finish(i)

SpecInterleaved == InitInterleaved /\ [][NextInterleaved]_vars

\* The keys of the add payload that belong to the file type
FileKeys ==
    {"allowedFileTypes", "maxFileAllowed", "imageQuality", "imageText",
     "fileNamePrefix"}

\* C11: in the payload of a field add, style and numberOfCols are present
\* only for a selector type, the file keys only for the type file and
\* formula only for the type calculationsAndLogic, whatever the caller
\* supplied.
C11_TypeSpecificKeysOnlyForTheirType ==
    (call.tool = "add_field_to_app" /\ requests # <<>>)
    => /\ ({"style", "numberOfCols"} \cap DOMAIN Payload # {}
              => call.args.field_type \in SelectorTypes)
       /\ (FileKeys \cap DOMAIN Payload # {} => call.args.field_type = "file")
       /\ ("formula" \in DOMAIN Payload
              => call.args.field_type = "calculationsAndLogic")

\* C11 witness: a single-line text field added with a style supplied, sent
\* without the style
C11_Witness ==
    /\ call.tool = "add_field_to_app"
    /\ call.args.field_type = "singleLineText"
    /\ "style" \in DOMAIN call.args
    /\ requests # <<>>
    /\ "style" \notin DOMAIN Payload


\* The kinds of string a _handle_response produces
IsSuccess(msg) ==
    \/ Contains(msg, "successfully") \/ Contains(msg, "Successfully")
    \/ msg[1] = "Success but invalid JSON response: "
IsApiError(msg) == msg[1] = "API Error ("
IsUnexpected(msg) == msg[1] = "Unexpected API response ("

\* C12: whatever the status and the body, a _handle_response returns a string
\* of one of the documented shapes and raises nothing
C12_ClassifierTotal ==
    call.layer = "classifier"
    => /\ outcome.kind = "returned"
       /\ \/ IsSuccess(outcome.value)
          \/ IsApiError(outcome.value)
          \/ IsUnexpected(outcome.value)

\* C13: status 200 or 201 with text that is not JSON gives a success message
\* holding the text; JSON gives a success message for status 200, and for
\* status 201 in submission creation; 400, 401, 403 and 404 give an error
\* message holding the status; any other status gives the unexpected-response
\* message holding the status and the text
C13_ClassifiedByStatus ==
    call.layer = "classifier"
    => LET response == call.args
           status == response.status_code
           msg == outcome.value
       IN  /\ outcome.kind = "returned"
           /\ (status \in {200, 201} /\ IsNone(response.json))
              => IsSuccess(msg) /\ Contains(msg, response.text)
           /\ (~IsNone(response.json)
                  /\ (status = 200
                      \/ (status = 201
                          /\ call.tool = "ClappiaSubmissionClient")))
              => IsSuccess(msg)
           /\ status \in {400, 401, 403, 404}
              => IsApiError(msg) /\ Contains(msg, ToString(status))
           /\ status \notin {200, 201, 400, 401, 403, 404}
              => /\ IsUnexpected(msg)
                 /\ Contains(msg, ToString(status))
                 /\ Contains(msg, response.text)

\* The operations that take a page size
PageSizeOperations ==
    {"get_clappia_submissions", "get_app_submissions_aggregation"}

\* C14: an operation given a page size outside 1..1000 ends with an error
\* string and sends nothing; a page size of 1 or 1000 draws no page-size
\* error
C14_PageSizeBounded ==
    (call.tool \in PageSizeOperations /\ "page_size" \in DOMAIN call.args)
    => IF call.args.page_size \in 1..1000
       THEN outcome.value \notin
                {<<"Error: page_size must be a positive integer">>,
                 <<"Error: page_size cannot exceed 1000">>}
       ELSE Rejected

\* C15: a field operation given a max_file_allowed outside 1..10, and a
\* field-add given a negative section_index or field_index, ends with an
\* error string and sends nothing; values inside the ranges draw no range
\* error
C15_NumericRangesChecked ==
    /\ (call.tool \in {"add_field_to_app", "update_field_in_app"}
           /\ "max_file_allowed" \in DOMAIN call.args)
       => IF call.args.max_file_allowed \in 1..10
          THEN outcome.value[Len(outcome.value)]
                   # "Max file allowed must be between 1 and 10"
          ELSE Rejected
    /\ call.tool = "add_field_to_app"
       => IF call.args.section_index >= 0 /\ call.args.field_index >= 0
          THEN outcome.value[Len(outcome.value)]
                   \notin {"Section index must be >= 0",
                           "Field index must be >= 0"}
          ELSE Rejected

\* The enumerated attributes with their vocabularies, by argument name and
\* by payload key
Vocabulary ==
    [validation |-> VALID_VALIDATIONS, style |-> VALID_STYLES,
     image_quality |-> VALID_IMAGE_QUALITIES, imageQuality |-> VALID_IMAGE_QUALITIES]

\* d holds an enumerated attribute with a value outside its vocabulary
OutOfVocabulary(d, file_types) ==
    \/ \E k \in DOMAIN Vocabulary \cap DOMAIN d : d[k] \notin Vocabulary[k]
    \/ /\ file_types \in DOMAIN d
       /\ \E i \in 1..Len(d[file_types]) :
             d[file_types][i] \notin VALID_FILE_TYPES

\* C16: a field operation given an enumerated attribute with a value outside
\* its vocabulary, the empty string included, ends with an error string and
\* sends nothing; no payload carries such a value
C16_EnumeratedAttributesChecked ==
    call.tool \in {"add_field_to_app", "update_field_in_app"}
    => /\ OutOfVocabulary(call.args, "allowed_file_types") => Rejected
       /\ requests # <<>> => ~OutOfVocabulary(Payload, "allowedFileTypes")

\* s is empty or made of whitespace only
BlankString(s) == \A i \in 1..Len(s) : s[i] \in Whitespace

\* C17: validate_condition accepts a condition exactly when it has the four
\* members, its operator is one of the 12, its key type is STANDARD or
\* CUSTOM, its key is not blank, the key is a standard field whenever the key
\* type is STANDARD, and its value is blank under EMPTY and NON_EMPTY and
\* not blank under every other operator
C17_ConditionAcceptedIff ==
    call.tool = "validate_condition"
    => LET c == call.args.condition
       IN  /\ outcome.kind = "returned"
           /\ Cardinality(FilterOperator) = 12
           /\ outcome.value.ok
              <=> /\ {"operator", "filterKeyType", "key", "value"}
                         \subseteq DOMAIN c
                  /\ c.operator \in FilterOperator
                  /\ c.filterKeyType \in {"STANDARD", "CUSTOM"}
                  /\ ~BlankString(c.key)
                  /\ c.filterKeyType = "STANDARD"
                     => Text(c.key) \in STANDARD_FIELDS
                  /\ BlankString(c.value)
                     <=> c.operator \in {"EMPTY", "NON_EMPTY"}

\* EMPTY with a value of whitespace only is accepted, and so is a standard
\* key under STANDARD
C17_Witness ==
    /\ call.tool = "validate_condition"
    /\ call.args.condition
           = Condition("EMPTY", "STANDARD", <<"o", "w", "n", "e", "r">>, <<" ">>)
    /\ outcome.value.ok

\* C18: a payload of submission retrieval or of submission aggregation holds
\* the key filters only if the caller's filters passed validate_filters, and
\* then holds the caller's filters unchanged
C18_FiltersValidatedThenVerbatim ==
    (/\ call.tool \in {"get_clappia_submissions",
                       "get_app_submissions_aggregation"}
     /\ requests # <<>>
     /\ "filters" \in DOMAIN Payload)
    => /\ "filters" \in DOMAIN call.args
       /\ validate_filters(call.args.filters).ok
       /\ Payload.filters = call.args.filters

\* The variable an operation takes its API key from
ApiKeyVariable(tool) ==
    IF tool \in {"create_app", "get_app_submissions", "edit_app_submission",
                 "update_app_submission_status"}
    THEN "CLAPPIA_API_KEY" ELSE "DEV_API_KEY"

IsConfigurationError(msg) ==
    /\ Len(msg) = 2
    /\ msg[1] = "Error: "
    /\ msg[2] \in {name \o " environment variable is not set" :
                      name \in DOMAIN ConfiguredEnv}

\* The arguments fail validation: the operation refuses them with everything
\* configured
FailsValidation(tool, args) ==
    Operation(tool, ConfiguredEnv, args, AnyReply).requests = <<>>

\* C20: arguments that fail validation get the same validation error whether
\* or not the configuration is there, never a configuration error; valid
\* arguments with the API key or the base URL missing get a configuration
\* error and no request is made
C20_ValidationBeforeConfiguration ==
    call.layer = "operation"
    => IF FailsValidation(call.tool, call.args)
       THEN /\ outcome = Operation(call.tool, ConfiguredEnv, call.args,
                                   AnyReply).outcome
            /\ ~IsConfigurationError(outcome.value)
            /\ requests = <<>>
       ELSE (IsNone(env[ApiKeyVariable(call.tool)])
                \/ IsNone(env.CLAPPIA_EXTERNAL_API_BASE_URL))
            => IsConfigurationError(outcome.value) /\ requests = <<>>

\* A test made in the operation itself
Inline(failed, msg) == IF failed THEN Fail(<<msg>>) ELSE Ok

Labelled(field, result) ==
    [prefix |-> "Error: Invalid " \o field \o " - ", result |-> result]
Unlabelled(result) == [prefix |-> "Error: ", result |-> result]

\* The checks of each operation in their order, each with what precedes its
\* message in the string returned
Checks(tool, a) ==
    CASE tool = "add_field_to_app" ->
           <<Labelled("app_id", validate_app_id(Some(a.app_id))),
             Labelled("workplace_id", validate_workplace_id(Some(a.workplace_id))),
             Labelled("email", validate_email(Some(a.requesting_user_email_address))),
             Labelled("field_type", validate_field_type(a.field_type)),
             Labelled("label", validate_label(a.label)),
             Labelled("indices", validate_indices(a.section_index, a.field_index)),
             [prefix |-> "Error: Field validation failed - ",
              result |-> validate_field_specific_options(
                             a.field_type, GetOpt(a, "options"),
                             GetOpt(a, "formula"))]>>
      [] tool = "update_field_in_app" ->
           <<Labelled("app_id", validate_app_id(Some(a.app_id))),
             Labelled("workplace_id", validate_workplace_id(Some(a.workplace_id))),
             Labelled("email", validate_email(Some(a.requesting_user_email_address))),
             Labelled("field_name", validate_field_name(a.field_name)),
             Unlabelled(validate_validation_type(GetOpt(a, "validation"))),
             Unlabelled(validate_style(GetOpt(a, "style"))),
             Unlabelled(validate_image_quality(GetOpt(a, "image_quality"))),
             Unlabelled(validate_file_types(GetOpt(a, "allowed_file_types"))),
             Unlabelled(validate_max_file_allowed(GetOpt(a, "max_file_allowed")))>>
      [] tool = "create_app" ->
           <<Labelled("app_name", validate_app_name(a.app_name)),
             Labelled("email", validate_email(Some(a.requesting_user_email_address))),
             Labelled("sections", validate_sections(a.sections))>>
      [] tool = "get_app_submissions" ->
           <<Unlabelled(Inline(Blank(Some(a.app_id)),
                               "app_id is required and cannot be empty")),
             Unlabelled(Inline(Blank(Some(a.requesting_user_email_address)),
                               "requesting_user_email_address is required and cannot be empty")),
             Unlabelled(Inline(~ClappiaValidator_validate_email(
                                    a.requesting_user_email_address),
                               "requesting_user_email_address must be a valid email address")),
             Unlabelled(Inline(a.page_size <= 0,
                               "page_size must be a positive integer")),
             Unlabelled(Inline(a.page_size > 1000,
                               "page_size cannot exceed 1000")),
             Labelled("filters", IF Has(a, "filters")
                                 THEN validate_filters(a.filters) ELSE Ok)>>
      [] tool = "get_app_submissions_aggregation" ->
           <<Unlabelled(Inline(Blank(Some(a.workplace_id)),
                               "workplace_id is required and cannot be empty")),
             Unlabelled(Inline(Blank(Some(a.app_id)),
                               "app_id is required and cannot be empty")),
             Unlabelled(Inline(~Has(a, "dimensions")
                                   /\ ~Has(a, "aggregation_dimensions"),
                               "At least one dimension or aggregation dimension must be provided"))>>
      [] tool = "get_app_definition" ->
           <<Labelled("app_id", validate_app_id(Some(a.app_id))),
             Labelled("workplace_id", validate_workplace_id(Some(a.workplace_id))),
             Labelled("language", validate_language(a.language))>>
      [] tool = "create_app_submission" ->
           <<Labelled("app_id", validate_app_id(Some(a.app_id))),
             Labelled("email", validate_email(Some(a.email))),
             Labelled("workplace_id", validate_workplace_id(Some(a.workplace_id))),
             Labelled("data", validate_data(Some(a.data)))>>
      [] tool = "edit_app_submission" ->
           <<Labelled("app_id", validate_app_id(Some(a.app_id))),
             Labelled("submission_id", validate_submission_id(Some(a.submission_id))),
             Labelled("email", validate_email(Some(a.email))),
             Labelled("data", validate_data(Some(a.data)))>>
      [] tool = "update_app_submission_status" ->
           <<Labelled("app_id", validate_app_id(Some(a.app_id))),
             Labelled("submission_id", validate_submission_id(Some(a.submission_id))),
             Labelled("email", validate_email(Some(a.email))),
             Labelled("status", Inline(BlankString(a.status_name),
                                       "Status name is required and cannot be empty"))>>
      [] tool = "update_app_submission_owners" ->
           <<Labelled("app_id", validate_app_id(Some(a.app_id))),
             Labelled("workplace_id", validate_workplace_id(Some(a.workplace_id))),
             Labelled("submission_id", validate_submission_id(Some(a.submission_id))),
             Labelled("email", validate_email(Some(a.email))),
             Labelled("email_ids", validate_email_ids(a.email_ids))>>

\* The positions of the checks that the arguments fail
Failing(tool, a) ==
    {i \in DOMAIN Checks(tool, a) : ~Checks(tool, a)[i].result.ok}

Earliest(positions) == CHOOSE i \in positions : \A j \in positions : i <= j

\* The segments of a message, put together
RECURSIVE Whole(_)
Whole(msg) == IF msg = <<>> THEN "" ELSE Head(msg) \o Whole(Tail(msg))

\* C19 as amended: an operation whose arguments fail some of its checks
\* returns "Error: ", the label of the earliest failing check where the check
\* has one, and that check's message, and sends nothing
C19_EarliestFailureReported ==
    (call.layer = "operation" /\ Failing(call.tool, call.args) # {})
    => LET first == Checks(call.tool, call.args)[
                        Earliest(Failing(call.tool, call.args))]
       IN  /\ outcome.kind = "returned"
           /\ Whole(outcome.value)
                  = first.prefix \o Whole(first.result.msg)
           /\ requests = <<>>

\* A field-add with a bad field type, a blank label and a negative index is
\* answered with the error of the field type
C19_Witness ==
    /\ call.layer = "operation"
    /\ call.tool = "add_field_to_app"
    /\ Failing(call.tool, call.args) = {4, 5, 6}
    /\ outcome.value[1] = "Error: Invalid field_type - "

\* C19: an operation whose arguments fail some of its checks returns the
\* message of the earliest failing check, labelled "Invalid <field> - "
C19_EarliestFailureLabelled ==
    (call.layer = "operation" /\ Failing(call.tool, call.args) # {})
    => /\ C19_EarliestFailureReported
       /\ \E field \in {"app_id", "workplace_id", "email", "field_type",
                        "label", "indices", "options", "formula",
                        "field_name", "validation", "style", "image_quality",
                        "allowed_file_types", "max_file_allowed", "app_name",
                        "sections", "requesting_user_email_address",
                        "page_size", "filters", "dimensions", "language",
                        "data", "submission_id", "status", "email_ids"} :
             outcome.value[1] = "Error: Invalid " \o field \o " - "

\* The transport failures that have an except clause of their own
TransportFailures == {"Timeout", "ConnectionError", "RequestException"}

\* Every string a _handle_response returns
ClassifierStrings ==
    UNION {{AddHandleResponse(r), UpdateHandleResponse(r),
            AggregationHandleResponse(r), CreateSubmissionHandleResponse(r),
            EditSubmissionHandleResponse(r), UpdateStatusHandleResponse(r),
            UpdateOwnersHandleResponse(r)}
           \cup {h.value : h \in {x \in {CreateHandleResponse(r),
                                          SubmissionsHandleResponse(r),
                                          DefinitionHandleResponse(r)} :
                                     x.kind = "returned"}} :
           r \in Responses}

\* C21: an invocation of an operation makes at most one request, and exactly
\* one unless validation fails or a configuration error is returned; a
\* timeout, a connection failure and any other transport exception end the
\* invocation after that one request with three different strings, each
\* starting "Error: " and none of them a string of a classifier
C21_OneRequestPerInvocation ==
    call.layer = "operation"
    => /\ Len(requests) <= 1
       /\ requests = <<>>
              <=> (FailsValidation(call.tool, call.args)
                      \/ IsConfigurationError(outcome.value))
       /\ \A i \in DOMAIN requests :
             (requests[i].reply.kind = "exception"
                 /\ requests[i].reply.exc \in TransportFailures)
             => /\ outcome.kind = "returned"
                /\ outcome.value[1]
                      = CASE requests[i].reply.exc = "Timeout" ->
                               "Error: Request timeout - API took too long to respond"
                          [] requests[i].reply.exc = "ConnectionError" ->
                               "Error: Connection error - Could not reach the Clappia API"
                          [] OTHER -> "Error: Request failed - "
                /\ \A other \in TransportFailures \ {requests[i].reply.exc} :
                      outcome.value # TransportError(other)
                /\ outcome.value \notin ClassifierStrings

\* A record was asked for with valid arguments and the request timed out
C21_Witness ==
    /\ call.layer = "operation"
    /\ call.tool = "create_app_submission"
    /\ Len(requests) = 1
    /\ requests[1].reply = Exception("Timeout")
    /\ outcome.value = <<"Error: Request timeout - API took too long to respond">>

\* The path of the endpoint a request goes to
Endpoint(request) == request.sent.url[2]

RequiredStrings ==
    [appId |-> {"app_id"},
     requestingUserEmailAddress |-> {"requesting_user_email_address", "email"},
     submissionId |-> {"submission_id"},
     fieldName |-> {"field_name"},
     label |-> {"label"}]

\* C23: in every payload or parameter set sent, the app identifier, the
\* requester email, the submission identifier, the field name and the label
\* are the caller's values with the surrounding whitespace removed
C23_RequiredStringsSentStripped ==
    \A i \in DOMAIN requests :
       \A key \in DOMAIN RequiredStrings \cap DOMAIN requests[i].sent.body :
          \A arg \in RequiredStrings[key] \cap DOMAIN call.args :
             /\ requests[i].sent.body[key] = Strip(call.args[arg])
             /\ requests[i].sent.body[key] = Strip(requests[i].sent.body[key])

\* C24: a status update that is answered with 200 and a JSON body returns a
\* string with "successfully" and the body; the status object sent has the
\* trimmed status name under name, and has comments exactly when the caller
\* gave comments that are not blank, its value then being non-empty
C24_StatusObjectSent ==
    (call.layer = "operation" /\ call.tool = "update_app_submission_status"
        /\ requests # <<>>)
    => LET status == requests[1].sent.body.status
           reply == requests[1].reply
       IN  /\ ~BlankString(call.args.status_name)
           /\ status.name = Strip(call.args.status_name)
           /\ "comments" \in DOMAIN status
                 <=> ("comments" \in DOMAIN call.args
                         /\ ~BlankString(call.args.comments))
           /\ "comments" \in DOMAIN status => status.comments # <<>>
           /\ (reply.kind = "response" /\ reply.status_code = 200
                   /\ ~IsNone(reply.json))
              => /\ Contains(outcome.value, "successfully")
                 /\ Contains(outcome.value, Dumps(reply.json))

\* A section that breaks a rule of validate_sections
SectionBroken(section) ==
    \/ Blank(Some(section.sectionName))
    \/ section.fields = <<>>
    \/ \E j \in DOMAIN section.fields :
          ~validate_section_field(section, section.fields[j], j - 1).ok

\* A query and a query group that break a rule of validate_filters
QueryBroken(query) ==
    \/ ~Has(query, "conditions")
    \/ query.conditions = <<>>
    \/ \E k \in DOMAIN query.conditions :
          ~validate_condition(query.conditions[k]).ok
    \/ Has(query, "operator") /\ query.operator \notin LogicalOperator
GroupBroken(group) ==
    \/ ~Has(group, "queries")
    \/ \E j \in DOMAIN group.queries : QueryBroken(group.queries[j])

\* What the earliest broken section of a list is reported with
SectionViolation(sections) ==
    LET i == Earliest({n \in DOMAIN sections : SectionBroken(sections[n])})
        section == sections[i]
        j == Earliest({n \in DOMAIN section.fields :
                         ~validate_section_field(section, section.fields[n],
                                                 n - 1).ok})
    IN  IF Blank(Some(section.sectionName))
        THEN Fail(<<"Section at index ", ToString(i - 1),
                    " must have a non-empty sectionName">>)
        ELSE IF section.fields = <<>>
        THEN Fail(<<"Section '", Text(section.sectionName),
                    "' must have at least one field">>)
        ELSE validate_section_field(section, section.fields[j], j - 1)

\* What the earliest broken query of the earliest broken query group is
\* reported with
FilterViolation(filters) ==
    LET i == Earliest({n \in DOMAIN filters.queries :
                         GroupBroken(filters.queries[n])})
        group == filters.queries[i]
        j == Earliest({n \in DOMAIN group.queries :
                         QueryBroken(group.queries[n])})
        query == group.queries[j]
        k == Earliest({n \in DOMAIN query.conditions :
                         ~validate_condition(query.conditions[n]).ok})
    IN  IF ~Has(group, "queries")
        THEN Fail(<<"Each query group must contain 'queries' key">>)
        ELSE IF ~Has(query, "conditions")
        THEN Fail(<<"Each query must contain 'conditions'">>)
        ELSE IF query.conditions = <<>>
        THEN Fail(<<"Conditions must be a non-empty list">>)
        ELSE IF \E n \in DOMAIN query.conditions :
                   ~validate_condition(query.conditions[n]).ok
        THEN validate_condition(query.conditions[k])
        ELSE Fail(<<"Invalid logical operator: ", query.operator>>)

\* C25: validate_sections reports the earliest broken section and in it the
\* earliest broken field; validate_filters reports the earliest broken query
\* group, in it the earliest broken query and in it the earliest broken
\* condition; a document without a broken part is accepted
C25_FirstViolationInDocumentOrder ==
    /\ (call.layer = "validator" /\ call.tool = "validate_sections")
       => LET sections == call.args.sections
          IN  outcome.value
                = IF sections = <<>>
                  THEN Fail(<<"At least one section is required">>)
                  ELSE IF \E n \in DOMAIN sections : SectionBroken(sections[n])
                  THEN SectionViolation(sections)
                  ELSE Ok
    /\ (call.layer = "validator" /\ call.tool = "validate_filters")
       => LET filters == call.args.filters
          IN  outcome.value
                = IF ~Has(filters, "queries")
                  THEN Fail(<<"Filters must contain 'queries' key">>)
                  ELSE IF filters.queries = <<>>
                  THEN Fail(<<"Queries must be a non-empty list">>)
                  ELSE IF \E n \in DOMAIN filters.queries :
                             GroupBroken(filters.queries[n])
                  THEN FilterViolation(filters)
                  ELSE Ok

\* Two sections each with a field that breaks a rule: the field of the first
\* section is the one reported
C25_Witness ==
    /\ call.layer = "validator"
    /\ call.tool = "validate_sections"
    /\ Len(call.args.sections) = 2
    /\ \A n \in 1..2 :
          /\ ~Blank(Some(call.args.sections[n].sectionName))
          /\ call.args.sections[n].fields # <<>>
          /\ SectionBroken(call.args.sections[n])
    /\ outcome.value
          = validate_section_fields(call.args.sections[1], 1)
    /\ outcome.value
          # validate_section_fields(call.args.sections[2], 1)

\* C26: a validator returns a pair (ok, message) and does not raise, whatever
\* the type of the value it is given: validate_condition and validate_filters
\* on a condition whose key or value is null or an int, and the status update
\* on a status name that is null
C26_ValidatorsReturnAPair ==
    /\ (call.layer = "validator"
           /\ call.tool \in {"validate_condition", "validate_filters"})
       => /\ outcome.kind = "returned"
          /\ DOMAIN outcome.value = {"ok", "msg"}
          /\ outcome.value.ok \in BOOLEAN
    /\ (call.layer = "operation" /\ call.tool = "update_app_submission_status")
       => outcome.kind = "returned"

\* The reply an invocation got to its own request
OwnReply(i) == IF requests[i] = <<>> THEN AnyReply ELSE requests[i][1].reply

\* C27: whatever the other invocation is doing, an invocation that has ended
\* returned what add_field_to_app run on its own gives for its arguments, the
\* environment and the reply to its own request, and issued the same
\* requests; the client of an invocation holds the environment as it is, and
\* the frame of an invocation that has not started is empty
C27_InterleavedAsAlone ==
    \A i \in Invocations :
       /\ phase[i] = "done"
          => LET alone == add_field_to_app(env, call[i].args, OwnReply(i))
             IN  /\ outcome[i] = alone.outcome
                 /\ requests[i] = alone.requests
       /\ phase[i] # "idle"
          => call[i].client = ClappiaAddFieldClient_init(env)
       /\ phase[i] = "idle"
          => call[i] = NoCall /\ outcome[i] = NoOutcome /\ requests[i] = <<>>

\* One invocation has ended with the answer of the service while the other
\* has built its request and not sent it
C27_Witness ==
    /\ phase[1] = "done"
    /\ phase[2] = "built"
    /\ requests[1] # <<>>
    /\ requests[1][1].reply.kind = "response"
    /\ call[1].args # call[2].args
    /\ Contains(outcome[1].value, "successfully")

\* The payload of a field add whose keyword arguments are kwargs, in a
\* workplace
PayloadOf(kwargs) ==
    AddBuildPayload(AddFieldRequest(("workplace_id" :> GoodWorkplaceId) @@ kwargs))

\* The optional arguments of a call that are given with the default of their
\* parameter
ExplicitDefaults(a) ==
    {k \in (DOMAIN a) \cap (DOMAIN AddToolDefaults) : a[k] = AddToolDefaults[k]}

\* C28: add_field_to_clappia_app hands to add_field_to_app the same keyword
\* arguments whether an optional argument is given with its default or
\* omitted, none of them a default, and the payload built from them is the
\* payload built from the arguments as the caller gave them
C28_ExplicitDefaultAsOmitted ==
    (call.layer = "facade" /\ call.tool = "add_field_to_clappia_app"
        /\ delegated # <<>>)
    => LET a == call.args
           kwargs == delegated[1].args
           omitted == Restrict(a, (DOMAIN a) \ ExplicitDefaults(a))
       IN  /\ ExplicitDefaults(a) \cap DOMAIN kwargs = {}
           /\ add_field_to_clappia_app(env, omitted, AnyReply).delegated[1].args
                 = kwargs
           /\ PayloadOf(kwargs) = PayloadOf(a)
           /\ PayloadOf(kwargs) = PayloadOf(omitted)

\* The tool was called with style="Standard" and a selector type
C28_Witness ==
    /\ call.layer = "facade"
    /\ call.tool = "add_field_to_clappia_app"
    /\ delegated # <<>>
    /\ call.args.field_type = "singleSelector"
    /\ ExplicitDefaults(call.args) = {"style"}
    /\ "style" \notin DOMAIN delegated[1].args
    /\ PayloadOf(delegated[1].args).style = "Standard"

\* C29: every field of the payload of create_clappia_app has the keys
\* fieldType, label and required, and options when its list of options is
\* not empty, and its required is the required of the field in the caller's
\* section dictionary
C29_CreatedFieldsKeepRequired ==
    (call.layer = "facade" /\ call.tool = "create_clappia_app"
        /\ requests # <<>>)
    => \A i \in DOMAIN Payload.sections :
          \A j \in DOMAIN Payload.sections[i].fields :
             LET sent == Payload.sections[i].fields[j]
                 given == call.args.sections[i].fields[j]
             IN  /\ DOMAIN sent
                      = {"fieldType", "label", "required"}
                        \cup (IF Get(given, "options", <<>>) # <<>>
                              THEN {"options"} ELSE {})
                 /\ sent.required = Get(given, "required", FALSE)

\* The field types validate_field_specific_options requires options for
OptionTypes == {"singleSelector", "multiSelector", "dropDown"}

\* C30: the payload of a field add of a type that requires options has the
\* key style, and numberOfCols when a number of columns other than 0 was
\* given
C30_SelectorFamilyInPayload ==
    (call.layer = "tools" /\ call.tool = "add_field_to_app"
        /\ requests # <<>> /\ call.args.field_type \in OptionTypes)
    => /\ "style" \in DOMAIN Payload
       /\ Get(call.args, "number_of_cols", 0) # 0
             => "numberOfCols" \in DOMAIN Payload

================================================================
